---- MODULE Spec2Model ----
(***************************************************************************)
(* Verification model of the prime-factorization engine                   *)
(* (prime_factorization/mod.rs, ecm/mod.rs, pollards_rho/mod.rs,          *)
(* structs.rs), of its Montgomery arithmetic context                      *)
(* (montgomery_mod_mult/montgomery_impl.rs, montgomery_traits.rs) and of   *)
(* the Chinese remainder routine (number_theory/crt.rs).                   *)
(*                                                                         *)
(* The specifications sharing the module:                                  *)
(*   Spec      the orchestrator prime_factorize, one action per loop       *)
(*             iteration of the Pollard dispatch loop, of ecm_trial and    *)
(*             of find_exponents;                                          *)
(*   SpecMont  the Montgomery context, one action per Context operation;   *)
(*   SpecRho   one call of pollard_rho_brent, one action per round, batch  *)
(*             and exit of its loops, on Montgomery residues;              *)
(*   SpecCrt   one call of chinese_remainder_theorem;                      *)
(*   SpecReuse prime_factorize called again on the thread's buffers;       *)
(*   SpecEcm   ecm_trial on the points and curves themselves: the batch    *)
(*             of suyama_parameterization, the ladder of phase 1 bit by    *)
(*             bit and the walk of phase 2 prime by prime;                 *)
(*   SpecTerm  Spec with the fairness of sequential code.                  *)
(*                                                                         *)
(* Scaling.  TLC integers are 32 bits wide, so the numeric constants of    *)
(* the program are scaled down and named as bounds: the trial-division     *)
(* range primes[1..1230] becomes primes[1..TrialEnd], the stack capacity   *)
(* SIZE and the curve count ITERATIONS are small, and the limb width       *)
(* LIMB_BITS of the big-integer library is 4 instead of 64.  The control   *)
(* flow and the arithmetic are those of the source.                        *)
(***************************************************************************)
EXTENDS Integers, Sequences, FiniteSets, TLC

\* ------------------------------------------------------------------ bounds
\* largest input handed to prime_factorize (Inputs adds one deeper input)
MaxN == 350
\* trial division runs over primes[1..TrialEnd] (source: primes[1..1230])
TrialEnd == 3
\* capacity of the two FixedVec stacks (source: SIZE = 128)
SIZE == 6
\* curves per ecm_trial pass (source: ITERATIONS = 200)
ITERATIONS == 2
\* an inexact div_exact leaves an unspecified value, drawn from 1..MaxGarbage
MaxGarbage == 8
\* pollard_rho_brent: steps per gcd batch (source: iterations = 4096)
RhoIterations == 2
\* pollard_rho_brent: rounds of Brent's schedule (source: 19)
RhoRounds == 2
\* pollard_rho_brent: batches of the backtrack phase (source: 128)
RhoFallbackBatches == 2
\* pollard_rho_brent: steps per backtrack batch (source: 128)
RhoFallbackSteps == 1
\* pollard_rho_brent: c and y are drawn from 0..RhoSeedMax (source: 10 random bits)
RhoSeedMax == 3
\* largest modulus handed to pollard_rho_brent
MaxRhoMod == 21
\* chinese_remainder_theorem: moduli in 1..MaxCrtMod, residues in
\* -MaxCrtMod..MaxCrtMod
MaxCrtMod == 6

VARIABLES
    \* --- prime_factorize: the thread-local BUFFER and the locals of the call
    n_in,               \* the argument n_
    n,                  \* BUFFER.0, the running cofactor
    factors,            \* the result vector of (prime, exponent)
    prime_factors,      \* BUFFER.1  FixedVec<Integer, SIZE>
    temporary_factors,  \* BUFFER.2  FixedVec<Factor, SIZE>
    failed_pollard,     \* BUFFER.4  [bool; SIZE]
    factor,             \* BUFFER.5  the scratch Factor
    ctx,                \* BUFFER.6  the shared ECM context (its modulus)
    index,              \* scan index of the Pollard dispatch loop
    i,                  \* curve counter of ecm_trial
    fi,                 \* loop counter of find_exponents' second loop
    stage,              \* 1, 2, 3: which find_exponents / ecm_trial pass
    pc,                 \* position inside prime_factorize
    stats,              \* what has happened during the current call
    \* --- Montgomery context
    mctx,               \* the Context record
    ma, mb,             \* two Montgomery-form operands
    sa, sb,             \* the residues they represent
    mop,                \* the last operation
    mout,               \* its result
    \* --- pollard_rho_brent: arguments, BUFFER_INTEGERS and locals
    rho_n,              \* the argument n (ctx is the context of modulus n)
    rho_g,              \* the output slot g
    rho_x, rho_y, rho_ys, rho_c,   \* BUFFER_INTEGERS x, y, ys, c
    rho_r, rho_k,       \* the locals r and k
    rho_round,          \* rounds of the outer for loop done
    rho_batch,          \* batches of the backtrack loop done
    rho_pc,             \* position inside pollard_rho_brent
    rho_ret,            \* "none" until it returns, then "None" or "Some"
    \* --- chinese_remainder_theorem
    crt_a, crt_m, crt_b, crt_n,    \* the arguments a, m, b, n
    crt_out,            \* what the call returned: [ok, x, M]
    \* --- ecm_trial and ecm_iteration on curve data
    ecm_pc,             \* position inside ecm_trial / ecm_iteration
    ecm_n,              \* the argument n: the cofactor the batch was built for
    params,             \* data.params1: the (u, v) of every curve
    curves,             \* BUFFER.3: the curve records (MontgomeryPoint, a24)
    ecm_i,              \* the local i of ecm_trial
    ecm_stack,          \* temporary_factors as ecm_trial sees it
    ecm_primes,         \* prime_factors as ecm_trial sees it
    handed,             \* the curves handed to ecm_iteration so far, in order
    phase2,             \* PHASE_2_BUFFER and the locals c, index
    buffer_points,      \* BUFFER_POINTS [P, Q] and the count of bits of s done
    ecm_result          \* ecm BUFFER: the gcd ecm_iteration leaves

ovars == <<n_in, n, factors, prime_factors, temporary_factors, failed_pollard,
           factor, ctx, index, i, fi, stage, pc, stats>>
mvars == <<mctx, ma, mb, sa, sb, mop, mout>>
cvars == <<crt_a, crt_m, crt_b, crt_n, crt_out>>
evars == <<ecm_pc, ecm_n, params, curves, ecm_i, ecm_stack, ecm_primes, handed,
           phase2,
          buffer_points, ecm_result>>
rvars == <<rho_n, rho_g, rho_x, rho_y, rho_ys, rho_c, rho_r, rho_k, rho_round,
           rho_batch, rho_pc, rho_ret>>
vars == <<n_in, n, factors, prime_factors, temporary_factors, failed_pollard,
          factor, ctx, index, i, fi, stage, pc, stats,
          mctx, ma, mb, sa, sb, mop, mout,
          rho_n, rho_g, rho_x, rho_y, rho_ys, rho_c, rho_r, rho_k, rho_round,
          rho_batch, rho_pc, rho_ret,
          crt_a, crt_m, crt_b, crt_n, crt_out,
          ecm_pc, ecm_n, params, curves, ecm_i, ecm_stack, ecm_primes, handed,
          phase2,
          buffer_points, ecm_result>>

\* ------------------------------------------------- big-integer primitives
\* rug Integer::is_probably_prime(20) != IsPrime::No (exact on this range)
is_probably_prime(k) == k > 1 /\ {d \in 2..(k - 1) : d * d <= k /\ k % d = 0} = {}

\* rug Integer::is_divisible
is_divisible(a, d) == a % d = 0

Divisors(k) == {d \in 1..k : k % d = 0}

\* rug Integer::gcd (never negative; gcd(0, b) = b)
RECURSIVE gcd(_, _)
gcd(a, b) == IF b = 0 THEN a ELSE gcd(b, a % b)

\* rug Integer::is_perfect_square
is_perfect_square(k) == {r \in 0..k : r * r = k} # {}

\* rug Integer::sqrt_mut (floor of the square root)
sqrt(k) == CHOOSE r \in 0..k : r * r <= k /\ (r + 1) * (r + 1) > k

\* Integer::find_one(0): position of the lowest set bit
RECURSIVE find_one(_)
find_one(k) == IF k % 2 = 1 THEN 0 ELSE 1 + find_one(k \div 2)

RECURSIVE Pow(_, _)
Pow(b, e) == IF e = 0 THEN 1 ELSE b * Pow(b, e - 1)

\* data.primes: the k-th prime, k counted from 0 (generate_primes)
RECURSIVE NextPrime(_)
NextPrime(k) == IF is_probably_prime(k) THEN k ELSE NextPrime(k + 1)
RECURSIVE primes(_)
primes(k) == IF k = 0 THEN 2 ELSE NextPrime(primes(k - 1) + 1)

\* ------------------------------------------------------------- structs.rs
\* Factor::new
FactorNew == [n |-> 0, idx |-> 0, ctx |-> 1]

\* FixedVec::new
FixedVecNew(template) == [data |-> [k \in 0..(SIZE - 1) |-> template], length |-> 0]

\* FixedVec::swap
swap(v, a, b) ==
    [v EXCEPT !.data = [v.data EXCEPT ![a] = v.data[b], ![b] = v.data[a]]]

\* FixedVec::dec
dec(v) == [v EXCEPT !.length = v.length - 1]

\* FixedVec::inc
inc(v) == [v EXCEPT !.length = v.length + 1]

\* FixedVec::clear
clear(v) == [v EXCEPT !.length = 0]

\* a faulty ordering step, for comparison: the two entries are never swapped
swap_if_smaller_never(v, a, b) == v

\* if len > 1 && get(a).n < get(b).n { swap(a, b) }: the smaller residue of
\* the two ends up at position b, the top of the stack
swap_if_smaller(v, a, b) ==
    IF v.length > 1 /\ v.data[a].n < v.data[b].n THEN swap(v, a, b) ELSE v

\* prime_factors.next().assign(p); prime_factors.inc()
push_prime(v, p) == inc([v EXCEPT !.data[v.length] = p])

\* ------------------------------------------------------------------ mod.rs
\* the loop  while curval.is_divisible(p) { curval.div_exact_mut(p) }
RECURSIVE remove_all(_, _)
remove_all(v, p) ==
    IF is_divisible(v, p) THEN remove_all(v \div p, p) ELSE v

\* for idx in from..prime_factors.len() { while divisible { div_exact } }
RECURSIVE reduce_by(_, _, _)
reduce_by(v, from, pf) ==
    IF from >= pf.length THEN v
    ELSE reduce_by(remove_all(v, pf.data[from]), from + 1, pf)

\* the exponent counted by  while n.is_divisible(p) { n.div_exact_mut(p); e += 1 }
RECURSIVE count_all(_, _)
count_all(v, p) ==
    IF is_divisible(v, p) THEN 1 + count_all(v \div p, p) ELSE 0

\* a faulty trial division, for comparison: it divides each prime out once and
\* records exponent 1, without the multiplicity loop of lines 23-26
RECURSIVE trial_division_from_once(_, _)
trial_division_from_once(st, k) ==
    IF k >= TrialEnd THEN st
    ELSE LET p == primes(k) IN
         IF is_divisible(st.n, p)
         THEN trial_division_from_once(
                  [n |-> st.n \div p, factors |-> Append(st.factors, <<p, 1>>)],
                  k + 1)
         ELSE trial_division_from_once(st, k + 1)

\* trial_division, scanning primes[k..TrialEnd); st = [n, factors]
RECURSIVE trial_division_from(_, _)
trial_division_from(st, k) ==
    IF k >= TrialEnd THEN st
    ELSE LET p == primes(k) IN
         IF is_divisible(st.n, p)
         THEN trial_division_from(
                  [n |-> remove_all(st.n, p),
                   factors |-> Append(st.factors, <<p, count_all(st.n, p)>>)],
                  k + 1)
         ELSE trial_division_from(st, k + 1)

trial_division(st) == trial_division_from(st, 1)

\* prime_factorize lines 123-129: strip the factor 2 by bit scan
strip_two(v) ==
    IF v % 2 = 0
    THEN [n |-> v \div Pow(2, find_one(v)), factors |-> <<<<2, find_one(v)>>>>]
    ELSE [n |-> v, factors |-> <<>>]

\* ---------------------------------------------------- pollards_rho/mod.rs
\* The outcomes of pollard_rho_brent(n, ctx, g).  Every gcd it takes is some
\* divisor of n, which one depends on the random c and y.
\*   main loop ends with g = 1                      -> None, g = 1
\*   main loop ends with 1 < g < n                  -> Some, g
\*   g = n, a backtrack batch gives 1 < g < n       -> Some, g
\*   g = n, backtrack exhausted, last gcd = n       -> None, g = n
\*   g = n, backtrack exhausted, last gcd = 1       -> Some, g = 1
pollard_rho_brent(m) ==
    {[ok |-> FALSE, g |-> 1]}
    \cup {[ok |-> TRUE, g |-> d] : d \in Divisors(m) \ {1, m}}
    \cup (IF m > 1 THEN {[ok |-> FALSE, g |-> m], [ok |-> TRUE, g |-> 1]} ELSE {})

\* ------------------------------------------------------------- ecm/mod.rs
\* ecm_iteration leaves in result a gcd with curval: some divisor of it
ecm_iteration(curval) == Divisors(curval)

\* while curval.is_perfect_square() { curval.sqrt_mut() }   (curval >= 2)
RECURSIVE sqrt_while_square(_)
sqrt_while_square(v) ==
    IF v >= 2 /\ is_perfect_square(v) THEN sqrt_while_square(sqrt(v)) ELSE v

StatsNew == [pushed |-> FALSE, pollard |-> FALSE, suyama |-> FALSE,
             curve |-> FALSE, printed |-> FALSE, inexact |-> FALSE,
             calls |-> 0]

\* the arguments prime_factorize is called with: every n up to MaxN, and one
\* deeper input p^3 * q^2 whose sub-problem stack grows to three entries
Inputs == (1..MaxN) \cup {Pow(7, 3) * Pow(11, 2)}

\* ------------------------------------------------------- prime_factorize
InitOrch ==
    /\ n_in = 0
    /\ n = 0
    /\ factors = <<>>
    /\ prime_factors = FixedVecNew(0)
    /\ temporary_factors = FixedVecNew(FactorNew)
    /\ failed_pollard = [k \in 0..(SIZE - 1) |-> TRUE]
    /\ factor = FactorNew
    /\ ctx = 1
    /\ index = 0
    /\ i = 0
    /\ fi = 0
    /\ stage = 0
    /\ pc = "idle"
    /\ stats = StatsNew

\* lines 110-136: clear, strip 2, trial division, and the early return
CallSmall(v) ==
    /\ pc = "idle"
    /\ LET td == trial_division(strip_two(v)) IN
       /\ td.n = 1
       /\ n_in' = v
       /\ n' = td.n
       /\ factors' = td.factors
       /\ temporary_factors' = clear(temporary_factors)
       /\ pc' = "done"
    /\ stats' = [StatsNew EXCEPT !.calls = stats.calls]
    /\ index' = 0 /\ i' = 0 /\ fi' = 0 /\ stage' = 0
    /\ UNCHANGED <<prime_factors, failed_pollard, factor, ctx>>

\* lines 110-143: as above, then the residue is pushed as the first sub-problem
CallPush(v) ==
    /\ pc = "idle"
    /\ LET td == trial_division(strip_two(v))
           tf == clear(temporary_factors)
       IN
       /\ td.n # 1
       /\ n_in' = v
       /\ n' = td.n
       /\ factors' = td.factors
       \* temporary_factors.next().update_all(n, prime_factors.len()); inc()
       /\ temporary_factors' =
              inc([tf EXCEPT !.data[tf.length] =
                       [n |-> td.n, idx |-> prime_factors.length, ctx |-> td.n]])
       /\ failed_pollard' = [failed_pollard EXCEPT ![0] = FALSE]
       /\ index' = 1
       /\ pc' = "pollard"
    /\ stats' = [StatsNew EXCEPT !.pushed = TRUE, !.calls = stats.calls]
    /\ i' = 0 /\ fi' = 0 /\ stage' = 1
    /\ UNCHANGED <<prime_factors, factor, ctx>>

\* lines 144-161: the sub-problem at index is probably prime
DispatchPrime ==
    /\ pc = "pollard" /\ index > 0
    /\ LET ix == index - 1
           curval == temporary_factors.data[ix].n
           tf == dec(temporary_factors)
       IN
       /\ is_probably_prime(curval)
       /\ prime_factors' = push_prime(prime_factors, curval)
       /\ failed_pollard' = [failed_pollard EXCEPT ![ix] = TRUE]
       /\ temporary_factors' = swap(tf, ix, tf.length)
       /\ index' = ix
    /\ UNCHANGED <<n_in, n, factors, factor, ctx, i, fi, stage, pc, stats>>

\* lines 163-177: reduction on the scratch copy, then skipped
DispatchSkip ==
    /\ pc = "pollard" /\ index > 0
    /\ LET ix == index - 1
           curval == temporary_factors.data[ix].n
           reduced == reduce_by(curval, factor.idx, prime_factors)
           value_changed == reduced # curval
       IN
       /\ ~is_probably_prime(curval)
       /\ failed_pollard[ix] /\ ~value_changed
       /\ factor' = [factor EXCEPT !.n = reduced]
       /\ temporary_factors' =
              [temporary_factors EXCEPT !.data[ix].idx = prime_factors.length]
       /\ index' = ix
    /\ UNCHANGED <<n_in, n, factors, prime_factors, failed_pollard, ctx, i, fi,
                   stage, pc, stats>>

\* the modulus a context is bound to; a context a previous call left in the
\* buffers is written as the negated modulus (see Recall)
modulus(c) == IF c < 0 THEN 0 - c ELSE c

\* lines 182-187: the slot's context is copied when its modulus is the reduced
\* residue, otherwise the scratch context is rebound by update_ctx
pollard_ctx(slot_ctx, reduced) ==
    IF modulus(slot_ctx) = reduced THEN slot_ctx ELSE reduced

\* ecm/mod.rs 356-360: the slot's context is rebound unless its modulus is
\* already the residue
ecm_ctx(slot_ctx, curval) ==
    IF modulus(slot_ctx) = curval THEN slot_ctx ELSE curval

\* lines 163-192 up to the first pollard_rho_brent call; what the three calls
\* return is chosen by the caller of this operator
DispatchPollard(outcome_ok) ==
    /\ pc = "pollard" /\ index > 0
    /\ LET ix == index - 1
           len == temporary_factors.length
           curval == temporary_factors.data[ix].n
           reduced == reduce_by(curval, factor.idx, prime_factors)
           value_changed == reduced # curval
           tf1 == [temporary_factors EXCEPT !.data[ix].idx = prime_factors.length]
           fctx == pollard_ctx(temporary_factors.data[ix].ctx, reduced)
       IN
       /\ ~is_probably_prime(curval)
       /\ ~(failed_pollard[ix] /\ ~value_changed)
       /\ len < SIZE
       /\ \E r \in pollard_rho_brent(reduced) :
            /\ r.ok = outcome_ok
            /\ IF ~r.ok
               THEN \* all three attempts returned None
                    /\ factor' = [n |-> reduced, idx |-> factor.idx, ctx |-> fctx]
                    /\ failed_pollard' = [failed_pollard EXCEPT ![ix] = TRUE]
                    /\ temporary_factors' = [tf1 EXCEPT !.data[len].n = r.g]
                    /\ index' = ix
               ELSE \* lines 194-216
                    LET q == reduced \div r.g
                        tf2 == inc([tf1 EXCEPT !.data[ix].n = q,
                                               !.data[len].n = r.g,
                                               !.data[len].idx = prime_factors.length])
                        len2 == tf2.length
                    IN
                    /\ factor' = [n |-> q, idx |-> factor.idx, ctx |-> fctx]
                    /\ temporary_factors' = swap_if_smaller(tf2, ix, len2 - 1)
                    /\ index' = len2
                    /\ failed_pollard' =
                           [failed_pollard EXCEPT ![ix] = FALSE, ![len2 - 1] = FALSE]
    /\ stats' = [stats EXCEPT !.pollard = TRUE]
    /\ UNCHANGED <<n_in, n, factors, prime_factors, ctx, i, fi, stage, pc>>

DispatchPollardFail == DispatchPollard(FALSE)

DispatchPollardSplit == DispatchPollard(TRUE)

\* line 192 with a full stack: temporary_factors.next() indexes data[SIZE]
DispatchOverflow ==
    /\ pc = "pollard" /\ index > 0
    /\ LET ix == index - 1
           curval == temporary_factors.data[ix].n
           reduced == reduce_by(curval, factor.idx, prime_factors)
       IN
       /\ ~is_probably_prime(curval)
       /\ ~(failed_pollard[ix] /\ reduced = curval)
       /\ temporary_factors.length = SIZE
       /\ factor' = [n |-> reduced, idx |-> factor.idx, ctx |-> pollard_ctx(temporary_factors.data[ix].ctx, reduced)]
       /\ failed_pollard' = [failed_pollard EXCEPT ![ix] = TRUE]
       /\ temporary_factors' =
              [temporary_factors EXCEPT !.data[ix].idx = prime_factors.length]
       /\ index' = ix
    /\ pc' = "panic"
    /\ UNCHANGED <<n_in, n, factors, prime_factors, ctx, i, fi, stage, stats>>

\* line 144 false: the dispatch loop ends, find_exponents is entered
DispatchExit ==
    /\ pc = "pollard" /\ index = 0
    /\ pc' = "reduce"
    /\ UNCHANGED <<n_in, n, factors, prime_factors, temporary_factors,
                   failed_pollard, factor, ctx, index, i, fi, stage, stats>>

\* find_exponents lines 37-49: every live sub-problem is reduced from its idx
find_exponents_reduce(tf, pf) ==
    [tf EXCEPT !.data =
        [k \in 0..(SIZE - 1) |->
            IF k < tf.length
            THEN [tf.data[k] EXCEPT !.n = reduce_by(tf.data[k].n, tf.data[k].idx, pf),
                                    !.idx = 0]
            ELSE tf.data[k]]]

FindExponentsReduce ==
    /\ pc = "reduce"
    /\ temporary_factors' = find_exponents_reduce(temporary_factors, prime_factors)
    /\ fi' = 0
    /\ pc' = "count"
    /\ UNCHANGED <<n_in, n, factors, prime_factors, failed_pollard, factor, ctx,
                   index, i, stage, stats>>

\* find_exponents lines 51-60, one prime: the first division is unconditional
FindExponentsCount ==
    /\ pc = "count" /\ fi < prime_factors.length
    /\ LET p == prime_factors.data[fi] IN
       \E first \in (IF is_divisible(n, p) THEN {n \div p} ELSE 1..MaxGarbage) :
          /\ n' = remove_all(first, p)
          /\ factors' = Append(factors, <<p, 1 + count_all(first, p)>>)
          /\ stats' = [stats EXCEPT !.inexact = @ \/ ~is_divisible(n, p)]
    /\ fi' = fi + 1
    /\ UNCHANGED <<n_in, prime_factors, temporary_factors, failed_pollard, factor,
                   ctx, index, i, stage, pc>>

\* find_exponents line 62, then lines 226-227 / 234-244: the shared context is
\* rebound to n and the Suyama batch is built
FindExponentsSetup ==
    /\ pc = "count" /\ fi = prime_factors.length
    /\ stage \in {1, 2}
    /\ ~(stage = 2 /\ n = 1)
    /\ prime_factors' = clear(prime_factors)
    /\ ctx' = n
    /\ i' = 0
    /\ pc' = "ecm"
    /\ stats' = [stats EXCEPT !.suyama = TRUE]
    /\ UNCHANGED <<n_in, n, factors, temporary_factors, failed_pollard, factor,
                   index, fi, stage>>

\* suyama.rs line 85: a denominator shares a factor with n, invert_mut is None
FindExponentsAbort ==
    /\ pc = "count" /\ fi = prime_factors.length
    /\ stage \in {1, 2}
    /\ ~(stage = 2 /\ n = 1)
    /\ n > 1
    /\ prime_factors' = clear(prime_factors)
    /\ ctx' = n
    /\ pc' = "panic"
    /\ stats' = [stats EXCEPT !.suyama = TRUE]
    /\ UNCHANGED <<n_in, n, factors, temporary_factors, failed_pollard, factor,
                   index, i, fi, stage>>

\* lines 234-236 and 256-257: return factors
Return ==
    /\ pc = "count" /\ fi = prime_factors.length
    /\ (stage = 2 /\ n = 1) \/ stage = 3
    /\ prime_factors' = clear(prime_factors)
    /\ pc' = "done"
    /\ UNCHANGED <<n_in, n, factors, temporary_factors, failed_pollard, factor,
                   ctx, index, i, fi, stage, stats>>

\* ------------------------------------------------------------- ecm_trial
\* lines 323-334: the top sub-problem, reduced by the primes from its idx on
ecm_top == temporary_factors.data[temporary_factors.length - 1]

ecm_reduced == reduce_by(ecm_top.n, ecm_top.idx, prime_factors)

ecm_running == pc = "ecm" /\ i < ITERATIONS /\ temporary_factors.length > 0

\* lines 336-340: the residue is 1, the sub-problem is dropped
EcmDrop ==
    /\ ecm_running
    /\ ecm_reduced = 1
    /\ temporary_factors' =
           dec([temporary_factors EXCEPT
                   !.data[temporary_factors.length - 1].n = ecm_reduced])
    /\ UNCHANGED <<n_in, n, factors, prime_factors, failed_pollard, factor, ctx,
                   index, i, fi, stage, pc, stats>>

\* lines 342-354: square roots, then the residue is probably prime
EcmPrime ==
    /\ ecm_running
    /\ ecm_reduced # 1
    /\ LET curval == sqrt_while_square(ecm_reduced) IN
       /\ is_probably_prime(curval)
       /\ prime_factors' = push_prime(prime_factors, curval)
       /\ temporary_factors' =
              dec([temporary_factors EXCEPT
                      !.data[temporary_factors.length - 1].n = curval,
                      !.data[temporary_factors.length - 1].idx = prime_factors.length])
    /\ UNCHANGED <<n_in, n, factors, failed_pollard, factor, ctx, index, i, fi,
                   stage, pc, stats>>

\* lines 356-406: one curve is run on the residue; found says whether the gcd
\* it leaves in result is a proper divisor
EcmCurve(found) ==
    /\ ecm_running
    /\ ecm_reduced # 1
    /\ LET top == temporary_factors.length - 1
           curval == sqrt_while_square(ecm_reduced)
           tf1 == [temporary_factors EXCEPT
                      !.data[top] = [n |-> curval, idx |-> prime_factors.length,
                                     ctx |-> ecm_ctx(temporary_factors.data[top].ctx,
                                                     curval)]]
       IN
       /\ ~is_probably_prime(curval)
       /\ \E result \in ecm_iteration(curval) :
            /\ found = (result # 1 /\ result # curval)
            /\ IF ~found
               THEN /\ temporary_factors' = tf1
                    /\ stats' = [stats EXCEPT !.curve = TRUE]
               ELSE LET \* curval.div_exact_mut(result); update_n_and_index; inc
                        tf2 == inc([tf1 EXCEPT
                                       !.data[top].n = curval \div result,
                                       !.data[top + 1].n = result,
                                       !.data[top + 1].idx = prime_factors.length])
                        len == tf2.length
                    IN
                    /\ top + 1 < SIZE
                    /\ temporary_factors' = swap_if_smaller(tf2, len - 2, len - 1)
                    /\ stats' = [stats EXCEPT !.curve = TRUE, !.printed = TRUE]
    /\ i' = i + 1
    /\ UNCHANGED <<n_in, n, factors, prime_factors, failed_pollard, factor, ctx,
                   index, fi, stage, pc>>

EcmCurveFail == EcmCurve(FALSE)

EcmCurveSplit == EcmCurve(TRUE)

\* line 318 false: the pass is over, find_exponents is entered
EcmExit ==
    /\ pc = "ecm"
    /\ ~(i < ITERATIONS /\ temporary_factors.length > 0)
    /\ stage' = stage + 1
    /\ pc' = "reduce"
    /\ UNCHANGED <<n_in, n, factors, prime_factors, temporary_factors,
                   failed_pollard, factor, ctx, index, i, fi, stats>>

\* ------------------------------------------------- montgomery_impl.rs
\* limb width of the big-integer library (source: gmp LIMB_BITS = 64)
LIMB_BITS == 4
\* largest modulus a context is bound to
MaxMod == 13

Moduli == {m \in 3..MaxMod : m % 2 = 1}

\* Integer::significant_bits
RECURSIVE significant_bits(_)
significant_bits(k) == IF k = 0 THEN 0 ELSE 1 + significant_bits(k \div 2)

\* u32::next_multiple_of
next_multiple_of(x, m) == ((x + m - 1) \div m) * m

\* Integer::keep_bits: the low k bits in two's complement, never negative
keep_bits(x, k) == x % Pow(2, k)

\* Integer >>= k: arithmetic shift, rounds towards minus infinity
shr(x, k) == x \div Pow(2, k)

\* Integer::invert: Some(inverse in [0, m)) or None
invertible(a, m) == {r \in 0..(m - 1) : (a * r - 1) % m = 0} # {}
invert_value(a, m) == CHOOSE r \in 0..(m - 1) : (a * r - 1) % m = 0

\* a faulty lifting, for comparison: the loop stops one doubling early
RECURSIVE hensel_stops_early(_, _, _, _)
hensel_stops_early(n_inv, m, accuracy, r_bit_length) ==
    IF accuracy * 2 < r_bit_length
    THEN hensel_stops_early(n_inv * (2 - n_inv * m), m, accuracy * 2, r_bit_length)
    ELSE n_inv

\* Context::new lines 51-56 / change_mod lines 342-347: Hensel lifting
RECURSIVE hensel(_, _, _, _)
hensel(n_inv, m, accuracy, r_bit_length) ==
    IF accuracy < r_bit_length
    THEN hensel(n_inv * (2 - n_inv * m), m, accuracy * 2, r_bit_length)
    ELSE n_inv

\* Context::new
ContextNew(m) ==
    LET r_bit_length == next_multiple_of(significant_bits(m) + 2, LIMB_BITS)
        r == Pow(2, r_bit_length)
        n_inv == (0 - keep_bits(hensel(m, m, 3, r_bit_length), r_bit_length)) + r
        r_squared_mod_n == Pow(2, 2 * r_bit_length) % m
        t == keep_bits(keep_bits(r_squared_mod_n, r_bit_length) * n_inv, r_bit_length) * m
        r_mod_n == shr(r_squared_mod_n + t, r_bit_length)
        r4 == r_squared_mod_n * r_squared_mod_n
        t2 == keep_bits(keep_bits(r4, r_bit_length) * n_inv, r_bit_length) * m
        r_cubed_mod_n == shr(r4 + t2, r_bit_length)
    IN [n |-> m, n2 |-> 2 * m, n_inv |-> n_inv, r_mod_n |-> r_mod_n,
        r_squared_mod_n |-> r_squared_mod_n, r_cubed_mod_n |-> r_cubed_mod_n,
        r_bit_length |-> r_bit_length]

\* a faulty rebinding, for comparison: R^3 mod n is left as it was for the
\* previous modulus
change_mod_stale_r_cubed(c, m) ==
    [ContextNew(m) EXCEPT !.r_cubed_mod_n = c.r_cubed_mod_n]

\* Context::change_mod: every field is overwritten in place
change_mod(c, m) ==
    LET c1 == [c EXCEPT !.n = m, !.n2 = 2 * m,
                        !.r_bit_length =
                            next_multiple_of(significant_bits(m) + 2, LIMB_BITS)]
        c2 == [c1 EXCEPT !.n_inv =
                  (0 - keep_bits(hensel(m, m, 3, c1.r_bit_length), c1.r_bit_length))
                  + Pow(2, c1.r_bit_length)]
        c3 == [c2 EXCEPT !.r_squared_mod_n = Pow(2, 2 * c2.r_bit_length) % m]
        c4 == [c3 EXCEPT !.r_mod_n =
                  shr(c3.r_squared_mod_n
                      + keep_bits(keep_bits(c3.r_squared_mod_n, c3.r_bit_length)
                                  * c3.n_inv, c3.r_bit_length) * m,
                      c3.r_bit_length)]
        sq == c4.r_squared_mod_n * c4.r_squared_mod_n
    IN [c4 EXCEPT !.r_cubed_mod_n =
           shr(sq + keep_bits(keep_bits(sq, c4.r_bit_length) * c4.n_inv,
                              c4.r_bit_length) * m,
               c4.r_bit_length)]

\* Context::reduce_mut
reduce_mut(c, x) ==
    LET t == keep_bits(keep_bits(x, c.r_bit_length) * c.n_inv, c.r_bit_length) * c.n
    IN shr(x + t, c.r_bit_length)

\* a faulty multiplication, for comparison: the product is brought into
\* [0, 2n) without the Montgomery reduction
mul_assign_unreduced(c, a, b) == (a * b) % c.n2

\* Context::mul_assign (and mul)
mul_assign(c, a, b) == reduce_mut(c, a * b)

\* Context::square_mut (and square)
square_mut(c, a) == reduce_mut(c, a * a)

\* Context::cube_mut (and cube)
cube_mut(c, a) == reduce_mut(c, square_mut(c, a) * a)

\* Context::increment_mut (and increment)
increment_mut(c, x) == IF x + c.r_mod_n = c.n2 THEN 0 ELSE x + c.r_mod_n

\* Context::add_assign (and add)
add_assign(c, a, b) == IF a + b >= c.n2 THEN a + b - c.n2 ELSE a + b

\* Context::decrement_mut (and decrement)
decrement_mut(c, x) == IF x = 0 THEN c.n - 1 ELSE x - c.r_mod_n

\* Context::sub_assign (and sub)
sub_assign(c, a, b) == IF a - b < 0 THEN a - b + c.n2 ELSE a - b

\* Context::to_montgomery_mut (and to_montgomery)
to_montgomery_mut(c, x) == reduce_mut(c, x * c.r_squared_mod_n)

\* Context::from_montgomery_mut (and from_montgomery)
from_montgomery_mut(c, x) ==
    LET y == reduce_mut(c, x) IN IF y >= c.n THEN y - c.n ELSE y

\* a faulty inversion, for comparison: it scales by R^2 mod n instead of
\* R^3 mod n, so the result is the standard form of the inverse
invert_mut_r_squared(c, a) ==
    IF ~invertible(a, c.n)
    THEN [ok |-> FALSE, v |-> a]
    ELSE [ok |-> TRUE, v |-> reduce_mut(c, invert_value(a, c.n) * c.r_squared_mod_n)]

\* a faulty inversion, for comparison: the library's Err is ignored and the
\* operand is scaled and reduced all the same
invert_mut_ignores_err(c, a) ==
    IF ~invertible(a, c.n)
    THEN [ok |-> TRUE, v |-> reduce_mut(c, a * c.r_cubed_mod_n)]
    ELSE [ok |-> TRUE, v |-> reduce_mut(c, invert_value(a, c.n) * c.r_cubed_mod_n)]

\* Context::invert_mut: [ok, v]; on None the operand is left as it was
invert_mut(c, a) ==
    IF ~invertible(a, c.n)
    THEN [ok |-> FALSE, v |-> a]
    ELSE [ok |-> TRUE, v |-> reduce_mut(c, invert_value(a, c.n) * c.r_cubed_mod_n)]

\* Context::invert
invert(c, a) ==
    LET r == invert_mut(c, a) IN
    IF r.ok THEN [ok |-> TRUE, v |-> from_montgomery_mut(c, r.v)] ELSE r

\* ------------------------------------------------ montgomery_traits.rs
\* impl_montgomery_op!, impl_montgomery_op_assign!:  a op b, a op &b,
\* &a op &b, a op= b, a op= &b  all expand to  ctx.op(a, b)
\* impl_montgomery_op_commutative!:  &a + b  is  ctx.add(b, a)
add_ref_owned(c, a, b) == add_assign(c, b, a)

\* impl_montgomery_op_commutative!:  &a * b  is  ctx.mul(b, a)
mul_ref_owned(c, a, b) == mul_assign(c, b, a)

\* impl Sub<Integer> for MontgomeryRef:  &a - b  is  -ctx.sub(b, a)
sub_ref_owned(c, a, b) == 0 - sub_assign(c, b, a)

\* ------------------------------------------------- the context as a machine
\* the residue in [0, n) whose Montgomery form is x: s * R = x (mod n)
Repr(c, x) ==
    CHOOSE s \in 0..(c.n - 1) : (s * Pow(2, c.r_bit_length) - x) % c.n = 0

BinaryOps == {"add", "sub", "mul", "add_ref_owned", "sub_ref_owned", "mul_ref_owned"}
UnaryOps == {"square", "cube", "increment", "decrement"}

InitMont ==
    /\ \E m \in Moduli : mctx = ContextNew(m)
    /\ ma = 0 /\ mb = 0 /\ sa = 0 /\ sb = 0
    /\ mop = "new"
    /\ mout = [ok |-> TRUE, v |-> 0]

\* ctx.to_montgomery(a) into the first / second operand
ToMontgomeryA(a) ==
    /\ a \in 0..(mctx.n - 1)
    /\ ma' = to_montgomery_mut(mctx, a)
    /\ sa' = a
    /\ mop' = "to_montgomery"
    /\ mout' = [ok |-> TRUE, v |-> to_montgomery_mut(mctx, a)]
    /\ UNCHANGED <<mctx, mb, sb>>

ToMontgomeryB(b) ==
    /\ b \in 0..(mctx.n - 1)
    /\ mb' = to_montgomery_mut(mctx, b)
    /\ sb' = b
    /\ mop' = "to_montgomery_b"
    /\ mout' = [ok |-> TRUE, v |-> to_montgomery_mut(mctx, b)]
    /\ UNCHANGED <<mctx, ma, sa>>

Apply(op, v) ==
    /\ mop' = op
    /\ mout' = v
    /\ UNCHANGED <<mctx, ma, mb, sa, sb>>

Add == Apply("add", [ok |-> TRUE, v |-> add_assign(mctx, ma, mb)])
Sub == Apply("sub", [ok |-> TRUE, v |-> sub_assign(mctx, ma, mb)])
Mul == Apply("mul", [ok |-> TRUE, v |-> mul_assign(mctx, ma, mb)])
AddRefOwned == Apply("add_ref_owned", [ok |-> TRUE, v |-> add_ref_owned(mctx, ma, mb)])
SubRefOwned == Apply("sub_ref_owned", [ok |-> TRUE, v |-> sub_ref_owned(mctx, ma, mb)])
MulRefOwned == Apply("mul_ref_owned", [ok |-> TRUE, v |-> mul_ref_owned(mctx, ma, mb)])
Square == Apply("square", [ok |-> TRUE, v |-> square_mut(mctx, ma)])
Cube == Apply("cube", [ok |-> TRUE, v |-> cube_mut(mctx, ma)])
Increment == Apply("increment", [ok |-> TRUE, v |-> increment_mut(mctx, ma)])
Decrement == Apply("decrement", [ok |-> TRUE, v |-> decrement_mut(mctx, ma)])
Invert == Apply("invert", invert(mctx, ma))
InvertMut == Apply("invert_mut", invert_mut(mctx, ma))
FromMontgomery == Apply("from_montgomery", [ok |-> TRUE, v |-> from_montgomery_mut(mctx, ma)])

\* the result of a Montgomery-form operation becomes the second operand of the
\* next one; callers hand the context operands in [0, 2n) only
Store ==
    /\ mop \in BinaryOps \cup UnaryOps \cup {"invert_mut"}
    /\ mout.ok
    /\ mout.v >= 0 /\ mout.v < mctx.n2
    /\ mb' = mout.v
    /\ sb' = Repr(mctx, mout.v)
    /\ mop' = "store"
    /\ UNCHANGED <<mctx, ma, sa, mout>>

\* the operands change places
Exchange ==
    /\ ma # mb
    /\ ma' = mb /\ mb' = ma /\ sa' = sb /\ sb' = sa
    /\ mop' = "exchange"
    /\ UNCHANGED <<mctx, mout>>

\* ctx.change_mod(m); zero is the Montgomery form of zero for every modulus
ChangeMod(m) ==
    /\ m \in Moduli
    /\ mctx' = change_mod(mctx, m)
    /\ ma' = 0 /\ mb' = 0 /\ sa' = 0 /\ sb' = 0
    /\ mop' = "change_mod"
    /\ mout' = [ok |-> TRUE, v |-> 0]

NextMont ==
    \/ \E a \in 0..MaxMod : ToMontgomeryA(a) /\ UNCHANGED <<ovars, rvars, cvars, evars>>
    \/ \E b \in 0..MaxMod : ToMontgomeryB(b) /\ UNCHANGED <<ovars, rvars, cvars, evars>>
    \/ Add /\ UNCHANGED <<ovars, rvars, cvars, evars>>
    \/ Sub /\ UNCHANGED <<ovars, rvars, cvars, evars>>
    \/ Mul /\ UNCHANGED <<ovars, rvars, cvars, evars>>
    \/ AddRefOwned /\ UNCHANGED <<ovars, rvars, cvars, evars>>
    \/ SubRefOwned /\ UNCHANGED <<ovars, rvars, cvars, evars>>
    \/ MulRefOwned /\ UNCHANGED <<ovars, rvars, cvars, evars>>
    \/ Square /\ UNCHANGED <<ovars, rvars, cvars, evars>>
    \/ Cube /\ UNCHANGED <<ovars, rvars, cvars, evars>>
    \/ Increment /\ UNCHANGED <<ovars, rvars, cvars, evars>>
    \/ Decrement /\ UNCHANGED <<ovars, rvars, cvars, evars>>
    \/ Invert /\ UNCHANGED <<ovars, rvars, cvars, evars>>
    \/ InvertMut /\ UNCHANGED <<ovars, rvars, cvars, evars>>
    \/ FromMontgomery /\ UNCHANGED <<ovars, rvars, cvars, evars>>
    \/ Store /\ UNCHANGED <<ovars, rvars, cvars, evars>>
    \/ Exchange /\ UNCHANGED <<ovars, rvars, cvars, evars>>
    \/ \E m \in Moduli : ChangeMod(m) /\ UNCHANGED <<ovars, rvars, cvars, evars>>

\* ecm/mod.rs: the curve buffers outside ecm_trial (MontgomeryPoint::default
\* is the point with X = Z = 0)
PointDefault == [X |-> 0, Z |-> 0, k |-> 0, ok |-> TRUE]

InitEcmIdle ==
    /\ ecm_pc = "idle" /\ ecm_n = 1
    /\ params = <<>> /\ curves = <<>>
    /\ ecm_i = 0 /\ ecm_stack = <<>> /\ ecm_primes = <<>> /\ handed = <<>>
    /\ phase2 = [table |-> <<>>, Q2 |-> PointDefault, R_prev |-> PointDefault,
                 R |-> PointDefault, c |-> 0, index |-> 0]
    /\ buffer_points = [P |-> PointDefault, Q |-> PointDefault, bit |-> 0]
    /\ ecm_result = 0

\* crt.rs: no call made yet
InitCrtIdle ==
    /\ crt_a = 0 /\ crt_m = 1 /\ crt_b = 0 /\ crt_n = 1
    /\ crt_out = [ok |-> FALSE, x |-> 0, M |-> 1]

\* pollards_rho/mod.rs: BUFFER_INTEGERS and RAND_STATE outside a call
InitRhoIdle ==
    /\ rho_n = 1 /\ rho_g = 0
    /\ rho_x = 0 /\ rho_y = 0 /\ rho_ys = 0 /\ rho_c = 0
    /\ rho_r = 1 /\ rho_k = 0 /\ rho_round = 0 /\ rho_batch = 0
    /\ rho_pc = "idle" /\ rho_ret = "none"

\* a context under test; the orchestrator's buffer stays as constructed
InitContext == InitOrch /\ InitMont /\ InitRhoIdle /\ InitCrtIdle /\ InitEcmIdle

SpecMont == InitContext /\ [][NextMont]_vars

\* ------------------------------------------------- pollards_rho/mod.rs
RhoModuli == {m \in 3..MaxRhoMod : m % 2 = 1}

\* f: y <- y^2 + c in Montgomery form (lines 12-15)
f(v, c, cx) == add_assign(cx, square_mut(cx, v), c)

\* for _ in 0..r { f(y, &c, ctx) }
RECURSIVE advance(_, _, _, _)
advance(v, c, cx, steps) ==
    IF steps = 0 THEN v ELSE advance(f(v, c, cx), c, cx, steps - 1)

\* the accumulation loop (lines 78-84 on y, lines 106-112 on ys): each step
\* advances v and multiplies g by x - v; x is restored after each step
RECURSIVE accumulate(_, _, _, _, _, _)
accumulate(x, v, g, c, cx, steps) ==
    IF steps = 0 THEN [v |-> v, g |-> g]
    ELSE LET v1 == f(v, c, cx) IN
         accumulate(x, v1, mul_assign(cx, g, sub_assign(cx, x, v1)), c, cx, steps - 1)

min(a, b) == IF a < b THEN a ELSE b

\* lines 47-62: g = 0, c and y random and pushed into Montgomery form, r = 1
InitRho ==
    /\ rho_n \in RhoModuli
    /\ rho_g = 0
    /\ rho_x = 0 /\ rho_ys = 0
    /\ \E c0 \in 0..RhoSeedMax : rho_c = to_montgomery_mut(ContextNew(rho_n), c0)
    /\ \E y0 \in 0..RhoSeedMax : rho_y = to_montgomery_mut(ContextNew(rho_n), y0)
    /\ rho_r = 1 /\ rho_k = 0 /\ rho_round = 0 /\ rho_batch = 0
    /\ rho_pc = "round" /\ rho_ret = "none"

\* lines 63-72: a round starts: x = y, y advances r steps, k = 0
RhoRound ==
    /\ rho_pc = "round"
    /\ rho_x' = rho_y
    /\ rho_y' = advance(rho_y, rho_c, ContextNew(rho_n), rho_r)
    /\ rho_k' = 0
    /\ rho_pc' = "batch"
    /\ UNCHANGED <<rho_n, rho_g, rho_ys, rho_c, rho_r, rho_round, rho_batch, rho_ret>>

\* lines 73-88: one batch of the while loop, closed by g.gcd_mut(n)
RhoBatch ==
    /\ rho_pc = "batch"
    /\ rho_k < rho_r /\ rho_g < 2
    /\ LET cx == ContextNew(rho_n)
           acc == accumulate(rho_x, rho_y, cx.r_mod_n, rho_c, cx,
                             min(RhoIterations, rho_r - rho_k))
       IN
       /\ rho_ys' = rho_y
       /\ rho_y' = acc.v
       /\ rho_g' = gcd(acc.g, rho_n)
    /\ rho_k' = rho_k + RhoIterations
    /\ UNCHANGED <<rho_n, rho_x, rho_c, rho_r, rho_round, rho_batch, rho_pc, rho_ret>>

\* lines 73, 90-93 and 63: the while loop is over; break on g > 1, else r
\* doubles and the next round starts, if there is one
RhoRoundEnd ==
    /\ rho_pc = "batch"
    /\ ~(rho_k < rho_r /\ rho_g < 2)
    /\ IF rho_g > 1
       THEN /\ rho_pc' = "after"
            /\ UNCHANGED <<rho_r, rho_round>>
       ELSE /\ rho_r' = 2 * rho_r
            /\ rho_round' = rho_round + 1
            /\ rho_pc' = IF rho_round + 1 < RhoRounds THEN "round" ELSE "after"
    /\ UNCHANGED <<rho_n, rho_g, rho_x, rho_y, rho_ys, rho_c, rho_k, rho_batch, rho_ret>>

\* lines 96-99: g == 1, no factor
RhoFailed ==
    /\ rho_pc = "after" /\ rho_g = 1
    /\ rho_ret' = "None"
    /\ rho_pc' = "done"
    /\ UNCHANGED <<rho_n, rho_g, rho_x, rho_y, rho_ys, rho_c, rho_r, rho_k, rho_round,
                   rho_batch>>

\* lines 101, 120-125 with 1 < g < n: the backtrack phase is skipped
RhoFound ==
    /\ rho_pc = "after" /\ rho_g # 1 /\ rho_g # rho_n
    /\ rho_ret' = "Some"
    /\ rho_pc' = "done"
    /\ UNCHANGED <<rho_n, rho_g, rho_x, rho_y, rho_ys, rho_c, rho_r, rho_k, rho_round,
                   rho_batch>>

\* line 101 with g == n: the backtrack phase is entered
RhoFallbackEnter ==
    /\ rho_pc = "after" /\ rho_g = rho_n
    /\ rho_batch' = 0
    /\ rho_pc' = "fallback"
    /\ UNCHANGED <<rho_n, rho_g, rho_x, rho_y, rho_ys, rho_c, rho_r, rho_k, rho_round,
                   rho_ret>>

\* lines 104-117: one backtrack batch on ys; a proper divisor returns Some
RhoFallbackBatch ==
    /\ rho_pc = "fallback" /\ rho_batch < RhoFallbackBatches
    /\ LET cx == ContextNew(rho_n)
           acc == accumulate(rho_x, rho_ys, cx.r_mod_n, rho_c, cx, RhoFallbackSteps)
           g1 == gcd(acc.g, rho_n)
       IN
       /\ rho_ys' = acc.v
       /\ rho_g' = g1
       /\ IF g1 > 1 /\ g1 < rho_n
          THEN rho_ret' = "Some" /\ rho_pc' = "done"
          ELSE UNCHANGED <<rho_ret, rho_pc>>
    /\ rho_batch' = rho_batch + 1
    /\ UNCHANGED <<rho_n, rho_x, rho_y, rho_c, rho_r, rho_k, rho_round>>

\* lines 103 and 120-125: every backtrack batch was run; None if g == n,
\* Some otherwise
RhoFallbackEnd ==
    /\ rho_pc = "fallback" /\ rho_batch = RhoFallbackBatches
    /\ rho_ret' = IF rho_g = rho_n THEN "None" ELSE "Some"
    /\ rho_pc' = "done"
    /\ UNCHANGED <<rho_n, rho_g, rho_x, rho_y, rho_ys, rho_c, rho_r, rho_k, rho_round,
                   rho_batch>>

NextRho ==
    \/ RhoRound /\ UNCHANGED <<ovars, mvars, cvars, evars>>
    \/ RhoBatch /\ UNCHANGED <<ovars, mvars, cvars, evars>>
    \/ RhoRoundEnd /\ UNCHANGED <<ovars, mvars, cvars, evars>>
    \/ RhoFailed /\ UNCHANGED <<ovars, mvars, cvars, evars>>
    \/ RhoFound /\ UNCHANGED <<ovars, mvars, cvars, evars>>
    \/ RhoFallbackEnter /\ UNCHANGED <<ovars, mvars, cvars, evars>>
    \/ RhoFallbackBatch /\ UNCHANGED <<ovars, mvars, cvars, evars>>
    \/ RhoFallbackEnd /\ UNCHANGED <<ovars, mvars, cvars, evars>>

\* ------------------------------------------------- number_theory/crt.rs
\* Integer::extended_gcd_mut: the gcd g of a and b with cofactors s, t such
\* that a*s + b*t = g; which pair of cofactors is the library's choice
extended_gcd(a, b) ==
    {[g |-> gcd(a, b), s |-> s, t |-> (gcd(a, b) - a * s) \div b] :
        s \in {u \in (0 - b)..b : (gcd(a, b) - a * u) % b = 0}}

\* Integer %= : the remainder has the sign of the dividend
rem(a, b) == IF a >= 0 THEN a % b ELSE 0 - ((0 - a) % b)

\* Integer::div_exact_mut on a dividend of either sign
div_exact(a, b) == IF a >= 0 THEN a \div b ELSE 0 - ((0 - a) \div b)

\* a faulty solution, for comparison: the new modulus is m * n, not divided by g
crt_solve_product(a, m, b, n2, e) ==
    LET y == div_exact(rem((b - a) * e.s, n2), e.g) * m
        x == a + y
    IN [ok |-> TRUE, x |-> IF x < 0 THEN x + m * n2 ELSE x, M |-> m * n2]

\* chinese_remainder_theorem_mut lines 69-101, given the outcome e of
\* extended_gcd_mut: None, or a and m updated in place
crt_solve(a, m, b, n2, e) ==
    IF ~is_divisible(b - a, e.g)
    THEN [ok |-> FALSE, x |-> a, M |-> m]
    ELSE LET y == div_exact(rem((b - a) * e.s, n2), e.g) * m
             x == a + y
             mm == div_exact(m * n2, e.g)
         IN [ok |-> TRUE, x |-> IF x < 0 THEN x + mm ELSE x, M |-> mm]

\* chinese_remainder_theorem(a, m, b, n) lines 47-53, called once
Crt(a, m, b, n2) ==
    /\ InitCrtIdle
    /\ crt_a' = a /\ crt_m' = m /\ crt_b' = b /\ crt_n' = n2
    /\ \E e \in extended_gcd(m, n2) : crt_out' = crt_solve(a, m, b, n2, e)

CrtSome == \E m, n2 \in 1..MaxCrtMod : \E a, b \in (0 - MaxCrtMod)..MaxCrtMod :
               Crt(a, m, b, n2) /\ crt_out'.ok

CrtNone == \E m, n2 \in 1..MaxCrtMod : \E a, b \in (0 - MaxCrtMod)..MaxCrtMod :
               Crt(a, m, b, n2) /\ ~crt_out'.ok

NextCrt ==
    \/ CrtSome /\ UNCHANGED <<ovars, mvars, rvars, evars>>
    \/ CrtNone /\ UNCHANGED <<ovars, mvars, rvars, evars>>

\* ------------------------------------------------- ecm/mod.rs, curve level
\* a MontgomeryPoint is [X, Z, k, ok]: X and Z in Montgomery form; k records
\* which multiple of the base point the point stands for, and ok whether
\* every point_add on the way was given the difference it requires
\* point_double (lines 45-63): 2P on the curve with parameter a24
point_double(P, a24, c) ==
    LET a1 == square_mut(c, add_assign(c, P.X, P.Z))
        b1 == square_mut(c, sub_assign(c, P.X, P.Z))
        x2 == mul_assign(c, a1, b1)
        a2 == sub_assign(c, a1, b1)
        a3 == add_assign(c, mul_assign(c, a2, a24), b1)
    IN [k |-> 2 * P.k, ok |-> P.ok, X |-> x2, Z |-> mul_assign(c, a2, a3)]

\* a faulty differential addition, for comparison: the difference R is left
\* out of Z
point_add_no_difference(P, Q, R, c) ==
    LET a1 == mul_assign(c, add_assign(c, P.X, P.Z), sub_assign(c, Q.X, Q.Z))
        b1 == mul_assign(c, sub_assign(c, P.X, P.Z), add_assign(c, Q.X, Q.Z))
    IN [k |-> P.k + Q.k,
        ok |-> P.ok /\ Q.ok /\ R.ok /\ (R.k = P.k - Q.k \/ R.k = Q.k - P.k),
        X |-> square_mut(c, add_assign(c, a1, b1)),
        Z |-> square_mut(c, sub_assign(c, a1, b1))]

\* point_add (lines 66-92): P + Q; "it is required that R = P - Q (= Q - P)",
\* and the X of the result still lacks the factor R.Z
point_add(P, Q, R, c) ==
    LET a1 == mul_assign(c, add_assign(c, P.X, P.Z), sub_assign(c, Q.X, Q.Z))
        b1 == mul_assign(c, sub_assign(c, P.X, P.Z), add_assign(c, Q.X, Q.Z))
    IN [k |-> P.k + Q.k,
        ok |-> P.ok /\ Q.ok /\ R.ok /\ (R.k = P.k - Q.k \/ R.k = Q.k - P.k),
        X |-> square_mut(c, add_assign(c, a1, b1)),
        Z |-> mul_assign(c, square_mut(c, sub_assign(c, a1, b1)), R.X)]

\* point_add followed by  P.X *= ctx.wrap(&R.Z)  (lines 123-124, 127-128,
\* 175-176, 247-248)
point_add_scaled(P, Q, R, c) ==
    LET S == point_add(P, Q, R, c)
    IN [S EXCEPT !.X = mul_assign(c, S.X, R.Z)]

\* the loop of montgomery_ladder and of ecm_phase1 over the bits: st is
\* [P, Q], the running points before the first bit, P0 the point they differ
\* by; the last bit is the last step taken
RECURSIVE ladder_steps(_, _, _, _, _, _)
ladder_steps(st, P0, bits, a24, c, scaled) ==
    IF bits = <<>> THEN st
    ELSE LET sum(U, V) == IF scaled THEN point_add_scaled(U, V, P0, c)
                          ELSE point_add(U, V, P0, c)
             was == ladder_steps(st, P0, SubSeq(bits, 1, Len(bits) - 1), a24, c,
                                 scaled)
         IN IF bits[Len(bits)]
            THEN [Q |-> sum(was.Q, was.P), P |-> point_double(was.P, a24, c)]
            ELSE [P |-> sum(was.P, was.Q), Q |-> point_double(was.Q, a24, c)]

\* montgomery_ladder (lines 115-136): [P0 |-> [s]P0, Q0 |-> [s + 1]P0]; the
\* loop range  (0..(31 - s.leading_zeros())).rev()  of line 121 is the bit
\* positions below the top bit of s, highest first
montgomery_ladder(P0, s, a24, c) ==
    LET below == significant_bits(s) - 1
        bits == [b \in 1..below |-> (s \div Pow(2, below - b)) % 2 = 1]
        st == ladder_steps([Q |-> P0, P |-> point_double(P0, a24, c)], P0,
                           bits, a24, c, TRUE)
    IN [P0 |-> st.Q, Q0 |-> st.P]

\* precompute_gaps (lines 165-183): the table of [j]Q0 for the odd j listed in
\* values; st = [Q0, P, j] are the walking point, the one before it and its
\* multiple
precompute_gaps(Q0, Q2, c, vals) ==
    LET RECURSIVE walk(_, _)
        walk(st, val) ==
            IF st.j < val
            THEN walk([Q0 |-> point_add_scaled(st.Q0, Q2, st.P, c),
                       P |-> st.Q0, j |-> st.j + 2], val)
            ELSE st
        RECURSIVE from(_, _)
        from(st, rest) ==
            IF rest = <<>> THEN <<>>
            ELSE LET st2 == walk(st, Head(rest))
                 IN <<st2.Q0>> \o from(st2, Tail(rest))
    IN from([Q0 |-> Q0, P |-> Q0, j |-> 1], vals)

\* ------------------------------------------------- data.rs
\* BLOCK_SIZE_1 (source: 2000 = 2^4 * 5^3; here the smallest block the gap
\* table works for), BOUNDS1 = (B1, B2) (source: 50000 = 25 blocks, and
\* 50 * B1; here B1 is one and a half blocks, the least for which the scalar
\* c - 1 of line 235 is not 0)
BLOCK_SIZE_1 == 4
EcmB1 == 6
EcmB2 == 20

\* the sentinel of calculate_gaps
INF == 1000000

\* find_s: the product s of the highest prime powers <= B1 (lines 97-108)
\* and its bits below the top bit, highest first (lines 110-116)
find_s(B1) ==
    LET RECURSIVE highest_power(_, _)
        highest_power(p_pow, p) ==
            IF p_pow * p <= B1 THEN highest_power(p_pow * p, p) ELSE p_pow
        RECURSIVE product(_)
        product(k) ==
            IF primes(k) > B1 THEN 1
            ELSE highest_power(primes(k), primes(k)) * product(k + 1)
        s == product(0)
    IN [b \in 1..(significant_bits(s) - 1) |->
           (s \div Pow(2, significant_bits(s) - 1 - b)) % 2 = 1]

\* calculate_gaps: (values, gaps); gaps[k + 1] belongs to primes(k).  Lines
\* 53-71: the residues marked as not needed, the list values of the others
\* and the array index; lines 75-91: one entry per prime up to B2
calculate_gaps(block_size, B2) ==
    LET half == block_size \div 2
        marked(v) == \/ v < half /\ v % 2 = 0
                     \/ v >= 5 /\ v < half /\ v % 10 = 5
        RECURSIVE values_from(_)
        values_from(v) ==
            IF v >= half THEN <<>>
            ELSE (IF marked(v) THEN <<>> ELSE <<v>>) \o values_from(v + 1)
        index_of == [v \in 0..half |->
                        IF marked(v) THEN INF
                        ELSE IF v >= 1 /\ v < half
                             THEN Cardinality({w \in 1..(v - 1) : ~marked(w)})
                             ELSE 0]
        RECURSIVE advance_to(_, _)
        advance_to(multiple, p) ==
            IF multiple + block_size < p
            THEN advance_to(multiple + block_size, p) ELSE multiple
        RECURSIVE gaps_from(_, _)
        gaps_from(k, multiple) ==
            IF primes(k) > B2 THEN <<>>
            ELSE LET m2 == advance_to(multiple, primes(k))
                     v == primes(k) - m2
                     w == IF v > half THEN block_size - v ELSE v
                 IN <<index_of[w]>> \o gaps_from(k + 1, m2)
    IN [values |-> values_from(1), gaps |-> gaps_from(0, 0)]

\* get_data lines 31-32
gaps1 == calculate_gaps(BLOCK_SIZE_1, EcmB2)
s1 == find_s(EcmB1)

\* ------------------------------------------------- ecm/suyama.rs
\* largest sigma drawn by generate_parameters (source: any u16)
MaxSigma == 14

\* generate_parameters lines 18-25: (u, v) = (sigma^2 - 5, 4 sigma) for
\* sigma = max(random u16, 6)
generate_parameters(sigma) ==
    LET sg == IF sigma > 6 THEN sigma ELSE 6
    IN [u |-> sg * sg - 5, v |-> 4 * sg]

\* lines 59-70: the denominators 16 u^3 v of a24, in Montgomery form
suyama_den(c, par) ==
    LET X == to_montgomery_mut(c, par.u)
        Z == to_montgomery_mut(c, par.v)
    IN mul_assign(c, mul_assign(c, cube_mut(c, X), to_montgomery_mut(c, 16)), Z)

\* lines 76-81: the running products of the denominators
RECURSIVE suyama_prod(_, _, _)
suyama_prod(c, dens, k) ==
    IF k = 1 THEN dens[1]
    ELSE mul_assign(c, suyama_prod(c, dens, k - 1), dens[k])

\* lines 84-93: value after the iterations of the backward loop down to k:
\* the inverse of the product of the first k denominators
RECURSIVE suyama_value(_, _, _, _)
suyama_value(c, dens, inv_all, k) ==
    IF k = Len(dens) THEN inv_all
    ELSE mul_assign(c, suyama_value(c, dens, inv_all, k + 1), dens[k + 1])

\* a faulty batched inversion, for comparison: every curve is given the
\* inverse of the whole product
suyama_inverse_of_product(c, dens, inv_all, k) == inv_all

\* lines 88-93: the inverse of the k-th denominator
suyama_inverse(c, dens, inv_all, k) ==
    IF k = 1 THEN suyama_value(c, dens, inv_all, 1)
    ELSE mul_assign(c, suyama_prod(c, dens, k - 1),
                    suyama_value(c, dens, inv_all, k))

\* lines 97-116: the curve (P, a24) and its starting point from (u, v) and the
\* inverse of the denominator
suyama_curve(c, par, den_inv) ==
    LET u == to_montgomery_mut(c, par.u)
        v == to_montgomery_mut(c, par.v)
        Z1 == cube_mut(c, sub_assign(c, v, u))
        w == add_assign(c, mul_assign(c, u, to_montgomery_mut(c, 3)), v)
        Z2 == mul_assign(c, Z1, w)
        X1 == mul_assign(c, square_mut(c, square_mut(c, u)), to_montgomery_mut(c, 16))
        X2 == cube_mut(c, mul_assign(c, X1, den_inv))
    IN [P |-> [X |-> X2, Z |-> c.r_mod_n, k |-> 1, ok |-> TRUE],
        a24 |-> mul_assign(c, den_inv, Z2)]

\* suyama_parameterization: [ok, curves]; ok is FALSE when the unwrap of
\* line 85 panics, and curves is then what lines 59-70 left
suyama_parameterization(c, pars) ==
    LET dens == [k \in 1..Len(pars) |-> suyama_den(c, pars[k])]
        inv_all == invert_mut(c, suyama_prod(c, dens, Len(pars)))
    IN IF inv_all.ok
       THEN [ok |-> TRUE,
             curves |-> [k \in 1..Len(pars) |->
                            suyama_curve(c, pars[k],
                                         suyama_inverse(c, dens, inv_all.v, k))]]
       ELSE [ok |-> FALSE,
             curves |-> [k \in 1..Len(pars) |->
                            [P |-> [X |-> to_montgomery_mut(c, pars[k].u),
                                    Z |-> to_montgomery_mut(c, pars[k].v),
                                    k |-> 1, ok |-> TRUE],
                             a24 |-> dens[k]]]]

\* ------------------------------------------------- ecm_trial on curve data
\* largest modulus of the curve arithmetic
MaxEcmMod == 21

\* the residues of the sub-problem ecm_trial finds on top of the stack, and
\* the cofactors a batch is built for: odd, and composite, since
\* find_exponents has divided the primes found out of n.  The residue need
\* not divide the cofactor: the inexact division of find_exponents (line 54)
\* leaves n unspecified
EcmResidues == {m \in 1..MaxEcmMod : m % 2 = 1}
EcmCofactors == {m \in EcmResidues : m > 1 /\ ~is_probably_prime(m)}

\* the context of every modulus, as Context::new and change_mod make it
contexts == [m \in EcmResidues |-> ContextNew(m)]

\* the table of PHASE_2_BUFFER has 2000 entries
PHASE_2_TABLE == 2000

\* mod.rs 229-230 with ecm/mod.rs 314-315: primes.partition_point, the
\* number of primes below B1 and the number of primes up to B2
ecm_start == Cardinality({k \in 0..EcmB2 : primes(k) < EcmB1})
ecm_end == Cardinality({k \in 0..EcmB2 : primes(k) <= EcmB2})

\* mod.rs 226-230: the context is bound to the cofactor m, the batch of
\* curves is built from the parameters of the draws sg, and ecm_trial is
\* entered with a sub-problem of residue r on the stack
EcmBatch(m, sg, r) ==
    /\ ecm_pc = "idle"
    /\ LET pr == [k \in 1..ITERATIONS |-> generate_parameters(sg[k])]
           su == suyama_parameterization(contexts[m], pr)
       IN /\ params' = pr
          /\ curves' = su.curves
          /\ ecm_pc' = IF su.ok THEN "trial" ELSE "panic"
    /\ ecm_n' = m
    /\ ecm_stack' = <<[n |-> r, idx |-> 0, ctx |-> 1]>>
    /\ ecm_i' = 0 /\ ecm_primes' = <<>> /\ handed' = <<>>
    /\ UNCHANGED <<phase2, buffer_points, ecm_result>>

trial_top == ecm_stack[Len(ecm_stack)]

\* lines 329-334: the primes found since idx are divided out
trial_reduced ==
    LET RECURSIVE reduce(_, _)
        reduce(v, from) ==
            IF from > Len(ecm_primes) THEN v
            ELSE reduce(remove_all(v, ecm_primes[from]), from + 1)
    IN reduce(trial_top.n, trial_top.idx + 1)

\* line 318
trial_running == ecm_pc = "trial" /\ ecm_i < ITERATIONS /\ ecm_stack # <<>>

\* lines 336-340: the residue is 1; the curve is kept for the next sub-problem
TrialDrop ==
    /\ trial_running
    /\ trial_reduced = 1
    /\ ecm_stack' = SubSeq(ecm_stack, 1, Len(ecm_stack) - 1)
    /\ UNCHANGED <<ecm_pc, ecm_n, params, curves, ecm_i, ecm_primes, handed,
                   phase2,
                   buffer_points, ecm_result>>

\* lines 342-354: the residue is a prime (power); the curve is kept
TrialPrime ==
    /\ trial_running
    /\ trial_reduced # 1
    /\ is_probably_prime(sqrt_while_square(trial_reduced))
    /\ ecm_primes' = Append(ecm_primes, sqrt_while_square(trial_reduced))
    /\ ecm_stack' = SubSeq(ecm_stack, 1, Len(ecm_stack) - 1)
    /\ UNCHANGED <<ecm_pc, ecm_n, params, curves, ecm_i, handed, phase2,
                   buffer_points, ecm_result>>

\* a faulty re-mapping, for comparison: the values keep their old Montgomery
\* form and are only reduced
change_curve_keeps_form(cn, cm, cv) ==
    [P |-> [cv.P EXCEPT !.X = cv.P.X % cm.n, !.Z = cv.P.Z % cm.n],
     a24 |-> cv.a24 % cm.n]

\* lines 363-374: the curve is moved from the context cn to the context cm
change_curve(cn, cm, cv) ==
    [P |-> [cv.P EXCEPT
               !.X = to_montgomery_mut(cm, from_montgomery_mut(cn, cv.P.X) % cm.n),
               !.Z = to_montgomery_mut(cm, from_montgomery_mut(cn, cv.P.Z) % cm.n)],
     a24 |-> to_montgomery_mut(cm, from_montgomery_mut(cn, cv.a24) % cm.n)]

\* lines 319-377 on a composite residue: curve i is taken, the slot's idx and
\* context are set, the curve is re-mapped when the residue is not the
\* cofactor, and ecm_iteration is called; it enters ecm_phase1, whose lines
\* 144-146 set up the running points
TrialHand ==
    /\ trial_running
    /\ trial_reduced # 1
    /\ LET curval == sqrt_while_square(trial_reduced)
           slot_ctx == ecm_ctx(trial_top.ctx, curval)
           cx == contexts[modulus(slot_ctx)]
           cv == IF curval # ecm_n
                 THEN change_curve(contexts[ecm_n], cx, curves[ecm_i + 1])
                 ELSE curves[ecm_i + 1]
       IN /\ ~is_probably_prime(curval)
          /\ ecm_stack' = [ecm_stack EXCEPT ![Len(ecm_stack)] =
                              [n |-> curval, idx |-> Len(ecm_primes),
                               ctx |-> slot_ctx]]
          /\ curves' = [curves EXCEPT ![ecm_i + 1] = cv]
          /\ buffer_points' = [Q |-> cv.P, P |-> point_double(cv.P, cv.a24, cx),
                               bit |-> 0]
    /\ handed' = Append(handed, ecm_i + 1)
    /\ ecm_i' = ecm_i + 1
    /\ ecm_pc' = "phase1"
    /\ UNCHANGED <<ecm_n, params, ecm_primes, phase2, ecm_result>>

\* ecm_phase1 lines 148-156: one bit of s
EcmPhase1Step ==
    /\ ecm_pc = "phase1"
    /\ buffer_points.bit < Len(s1)
    /\ LET cx == contexts[modulus(trial_top.ctx)]
           cv == curves[ecm_i]
           st == ladder_steps(buffer_points, cv.P, <<s1[buffer_points.bit + 1]>>,
                              cv.a24, cx, FALSE)
       IN buffer_points' = [P |-> st.P, Q |-> st.Q, bit |-> buffer_points.bit + 1]
    /\ UNCHANGED <<ecm_pc, ecm_n, params, curves, ecm_i, ecm_stack, ecm_primes,
                   handed, phase2, ecm_result>>

\* ecm_phase1 line 158 and ecm_iteration lines 214-240: the point phase 1
\* ends with, the gcd with its Z, and when that shows nothing the setting up
\* of phase 2; from there on the multiples are counted from Q = [s]P0
EcmPhase1End ==
    /\ ecm_pc = "phase1"
    /\ buffer_points.bit >= Len(s1)
    /\ LET cx == contexts[modulus(trial_top.ctx)]
           cv == curves[ecm_i]
           Q == buffer_points.Q
           g == gcd(Q.Z, trial_top.n)
       IN IF g # 1 /\ g # trial_top.n
          THEN /\ curves' = [curves EXCEPT ![ecm_i].P = Q]
               /\ ecm_result' = g
               /\ ecm_pc' = "result"
               /\ UNCHANGED <<phase2, buffer_points>>
          ELSE LET Q0 == [Q EXCEPT !.k = 1]
                   L1 == montgomery_ladder(Q0, BLOCK_SIZE_1, cv.a24, cx)
                   c0 == (EcmB1 + BLOCK_SIZE_1 \div 2) \div BLOCK_SIZE_1
                   L2 == montgomery_ladder(L1.P0, c0 - 1, cv.a24, cx)
               IN /\ curves' = [curves EXCEPT ![ecm_i].P = L1.P0]
                  /\ phase2' = [table |-> precompute_gaps(
                                              Q0, point_double(Q0, cv.a24, cx),
                                              cx, gaps1.values),
                                Q2 |-> L2.P0, R_prev |-> phase2.R_prev,
                                R |-> L2.Q0, c |-> c0 * BLOCK_SIZE_1,
                                index |-> ecm_start]
                  /\ buffer_points' = [buffer_points EXCEPT !.Q = L2.P0,
                                                            !.P = L2.Q0]
                  /\ ecm_result' = cx.r_mod_n
                  /\ ecm_pc' = "phase2"
    /\ UNCHANGED <<ecm_n, params, ecm_i, ecm_stack, ecm_primes, handed>>

\* a faulty walk, for comparison: the point one block behind is not carried
\* along when the cursor moves
RECURSIVE phase2_walk_stale_difference(_, _, _, _)
phase2_walk_stale_difference(st, p, Q, cx) ==
    IF p - st.c > BLOCK_SIZE_1 \div 2
    THEN phase2_walk_stale_difference(
             [st EXCEPT !.R_prev = st.Q2,
                        !.R = point_add_scaled(st.R, Q, st.Q2, cx),
                        !.c = st.c + BLOCK_SIZE_1], p, Q, cx)
    ELSE st

\* lines 243-252: the cursor R moves block by block until the prime p is
\* within half a block of it
RECURSIVE phase2_walk(_, _, _, _)
phase2_walk(st, p, Q, cx) ==
    IF p - st.c > BLOCK_SIZE_1 \div 2
    THEN phase2_walk([st EXCEPT !.R_prev = st.Q2, !.Q2 = st.R,
                                !.R = point_add_scaled(st.R, Q, st.Q2, cx),
                                !.c = st.c + BLOCK_SIZE_1], p, Q, cx)
    ELSE st

\* lines 242-270: one prime of the phase-2 walk.  The table entry line 256
\* reads: past the array the index panics, past the entries precompute_gaps
\* wrote it is what the buffer was built with
EcmPhase2Step ==
    /\ ecm_pc = "phase2"
    /\ phase2.index < ecm_end
    /\ LET cx == contexts[modulus(trial_top.ctx)]
           gap == gaps1.gaps[phase2.index + 1]
           w == phase2_walk(phase2, primes(phase2.index), curves[ecm_i].P, cx)
           T == IF gap < Len(w.table) THEN w.table[gap + 1] ELSE PointDefault
           x == sub_assign(cx, mul_assign(cx, w.R.X, T.Z),
                           mul_assign(cx, w.R.Z, T.X))
       IN IF gap >= PHASE_2_TABLE
          THEN /\ ecm_pc' = "panic"
               /\ phase2' = w
               /\ UNCHANGED ecm_result
          ELSE /\ ecm_pc' = "phase2"
               /\ phase2' = [w EXCEPT !.index = @ + 1]
               /\ ecm_result' = mul_assign(cx, ecm_result, x)
    /\ UNCHANGED <<ecm_n, params, curves, ecm_i, ecm_stack, ecm_primes, handed,
                   buffer_points>>

\* line 272: the gcd of the accumulated product with the residue
EcmPhase2End ==
    /\ ecm_pc = "phase2"
    /\ phase2.index >= ecm_end
    /\ ecm_result' = gcd(ecm_result, trial_top.n)
    /\ ecm_pc' = "result"
    /\ UNCHANGED <<ecm_n, params, curves, ecm_i, ecm_stack, ecm_primes, handed,
                   phase2, buffer_points>>

\* lines 386-390: the curve found nothing
TrialFail ==
    /\ ecm_pc = "result"
    /\ ecm_result = 1 \/ ecm_result = trial_top.n
    /\ ecm_pc' = "trial"
    /\ UNCHANGED <<ecm_n, params, curves, ecm_i, ecm_stack, ecm_primes, handed,
                   phase2,
                   buffer_points, ecm_result>>

\* lines 392-406: the residue is split, the smaller part ends on top
TrialSplit ==
    /\ ecm_pc = "result"
    /\ ecm_result # 1 /\ ecm_result # trial_top.n
    /\ LET len == Len(ecm_stack)
           low == [trial_top EXCEPT !.n = trial_top.n \div ecm_result]
           new == [n |-> ecm_result, idx |-> Len(ecm_primes), ctx |-> 1]
       IN ecm_stack' = SubSeq(ecm_stack, 1, len - 1)
                       \o (IF low.n < new.n THEN <<new, low>> ELSE <<low, new>>)
    /\ ecm_pc' = "trial"
    /\ UNCHANGED <<ecm_n, params, curves, ecm_i, ecm_primes, handed, phase2,
                   buffer_points, ecm_result>>

\* line 318 false: ecm_trial returns
TrialExit ==
    /\ ecm_pc = "trial"
    /\ ~trial_running
    /\ ecm_pc' = "done"
    /\ UNCHANGED <<ecm_n, params, curves, ecm_i, ecm_stack, ecm_primes, handed,
                   phase2,
                   buffer_points, ecm_result>>

NextEcm ==
    \/ \E m \in EcmCofactors, sg \in [1..ITERATIONS -> 5..MaxSigma],
          r \in EcmResidues :
          EcmBatch(m, sg, r) /\ UNCHANGED <<ovars, mvars, rvars, cvars>>
    \/ TrialDrop /\ UNCHANGED <<ovars, mvars, rvars, cvars>>
    \/ TrialPrime /\ UNCHANGED <<ovars, mvars, rvars, cvars>>
    \/ TrialHand /\ UNCHANGED <<ovars, mvars, rvars, cvars>>
    \/ EcmPhase1Step /\ UNCHANGED <<ovars, mvars, rvars, cvars>>
    \/ EcmPhase1End /\ UNCHANGED <<ovars, mvars, rvars, cvars>>
    \/ EcmPhase2Step /\ UNCHANGED <<ovars, mvars, rvars, cvars>>
    \/ EcmPhase2End /\ UNCHANGED <<ovars, mvars, rvars, cvars>>
    \/ TrialFail /\ UNCHANGED <<ovars, mvars, rvars, cvars>>
    \/ TrialSplit /\ UNCHANGED <<ovars, mvars, rvars, cvars>>
    \/ TrialExit /\ UNCHANGED <<ovars, mvars, rvars, cvars>>

InitMontIdle ==
    /\ mctx = ContextNew(1)
    /\ ma = 0 /\ mb = 0 /\ sa = 0 /\ sb = 0
    /\ mop = "none"
    /\ mout = [ok |-> TRUE, v |-> 0]

Init == InitOrch /\ InitMontIdle /\ InitRhoIdle /\ InitCrtIdle /\ InitEcmIdle

Next ==
    \/ \E v \in Inputs : CallSmall(v) /\ UNCHANGED <<mvars, rvars, cvars, evars>>
    \/ \E v \in Inputs : CallPush(v) /\ UNCHANGED <<mvars, rvars, cvars, evars>>
    \/ DispatchPrime /\ UNCHANGED <<mvars, rvars, cvars, evars>>
    \/ DispatchSkip /\ UNCHANGED <<mvars, rvars, cvars, evars>>
    \/ DispatchPollardFail /\ UNCHANGED <<mvars, rvars, cvars, evars>>
    \/ DispatchPollardSplit /\ UNCHANGED <<mvars, rvars, cvars, evars>>
    \/ DispatchOverflow /\ UNCHANGED <<mvars, rvars, cvars, evars>>
    \/ DispatchExit /\ UNCHANGED <<mvars, rvars, cvars, evars>>
    \/ FindExponentsReduce /\ UNCHANGED <<mvars, rvars, cvars, evars>>
    \/ FindExponentsCount /\ UNCHANGED <<mvars, rvars, cvars, evars>>
    \/ FindExponentsSetup /\ UNCHANGED <<mvars, rvars, cvars, evars>>
    \/ FindExponentsAbort /\ UNCHANGED <<mvars, rvars, cvars, evars>>
    \/ Return /\ UNCHANGED <<mvars, rvars, cvars, evars>>
    \/ EcmDrop /\ UNCHANGED <<mvars, rvars, cvars, evars>>
    \/ EcmPrime /\ UNCHANGED <<mvars, rvars, cvars, evars>>
    \/ EcmCurveFail /\ UNCHANGED <<mvars, rvars, cvars, evars>>
    \/ EcmCurveSplit /\ UNCHANGED <<mvars, rvars, cvars, evars>>
    \/ EcmExit /\ UNCHANGED <<mvars, rvars, cvars, evars>>

Spec == Init /\ [][Next]_vars

\* one call of pollard_rho_brent, from its entry to its return
InitPollard == InitOrch /\ InitMontIdle /\ InitRho /\ InitCrtIdle /\ InitEcmIdle

SpecRho == InitPollard /\ [][NextRho]_vars

\* calls of chinese_remainder_theorem
SpecCrt == Init /\ [][NextCrt]_vars

\* ------------------------------------------------- calls on one thread
\* what the thread-local buffers hold when a call is over is marked, so that
\* a later read of a leftover shows: residues, idx values and the entries
\* above the length of prime_factors become -1, a context keeps its modulus,
\* negated
Stale == [n |-> 0 - 1, idx |-> 0 - 1]

\* the inputs of the repeated calls, and how often the thread calls again
ReuseInputs == {9, 77, Pow(7, 2) * 11}

MaxRecalls == 1

\* prime_factorize has returned, or has panicked and the caller has caught
\* the unwinding, and it is called again on the same thread: BUFFER keeps its
\* contents (stack lengths, failed flags and the primes of prime_factors
\* included), the locals of the call are gone
Recall ==
    /\ pc \in {"done", "panic"}
    /\ stats.calls < MaxRecalls
    /\ pc' = "idle"
    /\ temporary_factors' =
           [data |-> [k \in 0..(SIZE - 1) |->
                         [n |-> Stale.n, idx |-> Stale.idx,
                          ctx |-> 0 - modulus(temporary_factors.data[k].ctx)]],
            length |-> temporary_factors.length]
    /\ prime_factors' =
           [data |-> [k \in 0..(SIZE - 1) |->
                         IF k < prime_factors.length THEN prime_factors.data[k]
                         ELSE Stale.n],
            length |-> prime_factors.length]
    /\ factor' = [n |-> Stale.n, idx |-> factor.idx, ctx |-> 0 - modulus(factor.ctx)]
    /\ ctx' = 0 - modulus(ctx)
    /\ n' = Stale.n
    /\ n_in' = 0 /\ factors' = <<>>
    /\ index' = 0 /\ i' = 0 /\ fi' = 0 /\ stage' = 0
    /\ stats' = [StatsNew EXCEPT !.calls = stats.calls + 1]
    /\ UNCHANGED failed_pollard

NextReuse ==
    \/ \E v \in ReuseInputs : CallSmall(v) /\ UNCHANGED <<mvars, rvars, cvars, evars>>
    \/ \E v \in ReuseInputs : CallPush(v) /\ UNCHANGED <<mvars, rvars, cvars, evars>>
    \/ DispatchPrime /\ UNCHANGED <<mvars, rvars, cvars, evars>>
    \/ DispatchSkip /\ UNCHANGED <<mvars, rvars, cvars, evars>>
    \/ DispatchPollardFail /\ UNCHANGED <<mvars, rvars, cvars, evars>>
    \/ DispatchPollardSplit /\ UNCHANGED <<mvars, rvars, cvars, evars>>
    \/ DispatchOverflow /\ UNCHANGED <<mvars, rvars, cvars, evars>>
    \/ DispatchExit /\ UNCHANGED <<mvars, rvars, cvars, evars>>
    \/ FindExponentsReduce /\ UNCHANGED <<mvars, rvars, cvars, evars>>
    \/ FindExponentsCount /\ UNCHANGED <<mvars, rvars, cvars, evars>>
    \/ FindExponentsSetup /\ UNCHANGED <<mvars, rvars, cvars, evars>>
    \/ FindExponentsAbort /\ UNCHANGED <<mvars, rvars, cvars, evars>>
    \/ Return /\ UNCHANGED <<mvars, rvars, cvars, evars>>
    \/ EcmDrop /\ UNCHANGED <<mvars, rvars, cvars, evars>>
    \/ EcmPrime /\ UNCHANGED <<mvars, rvars, cvars, evars>>
    \/ EcmCurveFail /\ UNCHANGED <<mvars, rvars, cvars, evars>>
    \/ EcmCurveSplit /\ UNCHANGED <<mvars, rvars, cvars, evars>>
    \/ EcmExit /\ UNCHANGED <<mvars, rvars, cvars, evars>>
    \/ Recall /\ UNCHANGED <<mvars, rvars, cvars, evars>>

SpecReuse == Init /\ [][NextReuse]_vars

\* ecm_trial run on the curve data: passes of ecm_trial over a batch made by
\* suyama_parameterization, one action per ladder bit and per prime of phase 2
SpecEcm == Init /\ [][NextEcm]_vars

\* prime_factorize is sequential code: a call that can take a step takes it
SpecTerm == Init /\ [][Next]_vars /\ WF_vars(Next)

\* ================================================================ claims
returned == pc = "done"

\* product of p^e over a result list
RECURSIVE Product(_)
Product(fs) == IF fs = <<>> THEN 1 ELSE Pow(Head(fs)[1], Head(fs)[2]) * Product(Tail(fs))

\* the primes trial division scans, and the inputs built from 2 and them only
TrialPrimes == {primes(k) : k \in 1..(TrialEnd - 1)}
RECURSIVE SmoothRest(_, _)
SmoothRest(v, ps) ==
    IF ps = {} THEN v
    ELSE LET p == CHOOSE q \in ps : TRUE IN SmoothRest(remove_all(v, p), ps \ {p})
Smooth(v) == SmoothRest(v, {2} \cup TrialPrimes) = 1
ExactMultiplicity(v, p, e) == v % Pow(p, e) = 0 /\ v % Pow(p, e + 1) # 0

\* C1 (as claimed): every prime of the returned list is prime and the product of
\* p^e over the returned list divides the input.
C1_ProductDivides ==
    returned =>
        /\ \A k \in 1..Len(factors) : is_probably_prime(factors[k][1])
        /\ n_in % Product(factors) = 0

\* C2 (as claimed): each prime appears at most once in the returned list.
C2_PrimesDistinct ==
    returned =>
        \A j, k \in 1..Len(factors) : j # k => factors[j][1] # factors[k][1]

\* C3 (as claimed): every returned pair (p, e) has e the exact multiplicity of
\* p in the input.
C3_ExactExponents ==
    returned =>
        \A k \in 1..Len(factors) : ExactMultiplicity(n_in, factors[k][1], factors[k][2])

\* C4 (as claimed): a return with an empty sub-problem stack gives a list whose
\* product equals the input, and a returned product other than the input means
\* that a composite sub-problem is still on the stack.
C4_CompleteWhenNoneLeft ==
    /\ (returned /\ temporary_factors.length = 0) => Product(factors) = n_in
    /\ (returned /\ Product(factors) # n_in) =>
           {k \in 0..(temporary_factors.length - 1) :
               /\ temporary_factors.data[k].n > 1
               /\ ~is_probably_prime(temporary_factors.data[k].n)} # {}

\* C5: an input built from 2 and the trial-division primes only returns at
\* once, with the complete factorisation, exact exponents, primes increasing
\* (2 first), nothing pushed and no Pollard, Suyama or ECM step run; 1 gives
\* the empty list.
C5_SmoothInputs ==
    (pc # "idle" /\ Smooth(n_in)) =>
        /\ returned
        /\ Product(factors) = n_in
        /\ \A k \in 1..Len(factors) :
              /\ is_probably_prime(factors[k][1])
              /\ ExactMultiplicity(n_in, factors[k][1], factors[k][2])
        /\ \A k \in 1..(Len(factors) - 1) : factors[k][1] < factors[k + 1][1]
        /\ temporary_factors.length = 0
        /\ ~stats.pushed /\ ~stats.pollard /\ ~stats.suyama /\ ~stats.curve
        /\ (n_in = 1 => factors = <<>>)

\* C5 witness: 2, 3 and 5 all divide out, one of them with multiplicity
C5_Witness ==
    /\ returned /\ Smooth(n_in)
    /\ Len(factors) = 3
    /\ \E k \in 1..3 : factors[k][2] >= 2

\* the square of a prime above the trial-division range
LargePrimeSquare(v) ==
    /\ is_perfect_square(v)
    /\ is_probably_prime(sqrt(v))
    /\ sqrt(v) \notin ({2} \cup TrialPrimes)

\* C6 (as claimed): the square of a prime p above the trial-division range
\* returns exactly [(p, 2)].
C6_PrimeSquare ==
    (returned /\ LargePrimeSquare(n_in)) => factors = <<<<sqrt(n_in), 2>>>>

\* ------------------------------------------------- Montgomery claims
Canonical(x) == x >= 0 /\ x < mctx.n

\* both operands are the Montgomery forms of the residues sa and sb
OperandsRepresent == Repr(mctx, ma) = sa /\ Repr(mctx, mb) = sb

\* C7: Montgomery arithmetic agrees with plain modular arithmetic: the round
\* trip to_montgomery / from_montgomery is the identity on [0, n), and add, sub,
\* mul (every operator form), square and cube, read back with from_montgomery,
\* give the canonical (a op b) mod n.
C7_AgreesWithModular ==
    LET back == from_montgomery_mut(mctx, mout.v)
        m == mctx.n
    IN
    /\ mop = "to_montgomery" => (back = sa /\ mout.v = ma)
    /\ mop = "to_montgomery_b" => (back = sb /\ mout.v = mb)
    /\ mop \in {"add", "add_ref_owned"} => back = (sa + sb) % m
    /\ mop \in {"sub", "sub_ref_owned"} => back = (sa - sb) % m
    /\ mop \in {"mul", "mul_ref_owned"} => back = (sa * sb) % m
    /\ mop = "square" => back = (sa * sa) % m
    /\ mop = "cube" => back = (sa * sa * sa) % m
    /\ mop \in {"add", "add_ref_owned", "sub", "sub_ref_owned", "mul",
                "mul_ref_owned", "square", "cube"} => Canonical(back)
    /\ OperandsRepresent

\* C7 witness: a subtraction that wraps, on a modulus with R mod n # 1, of two
\* operands that came straight from to_montgomery
C7_Witness ==
    /\ mop = "sub"
    /\ mctx.r_mod_n # 1
    /\ sa < sb /\ sa > 0
    /\ ma = to_montgomery_mut(mctx, sa) /\ mb = to_montgomery_mut(mctx, sb)
    /\ from_montgomery_mut(mctx, mout.v) = sa - sb + mctx.n

\* C8 (as claimed): increment and decrement, read back with from_montgomery,
\* give (a + 1) mod n and (a - 1) mod n.
C8_IncrementDecrement ==
    /\ mop = "increment" =>
           from_montgomery_mut(mctx, mout.v) = (sa + 1) % mctx.n
    /\ mop = "decrement" =>
           from_montgomery_mut(mctx, mout.v) = (sa - 1) % mctx.n

\* C9 (as claimed): every Context operation other than from_montgomery, applied
\* to operands in [0, 2n), returns a value in [0, 2n).
C9_LazyBound ==
    (/\ ma >= 0 /\ ma < mctx.n2 /\ mb >= 0 /\ mb < mctx.n2
     /\ mop \in {"to_montgomery", "to_montgomery_b", "add", "sub", "mul", "square",
                 "cube", "increment", "decrement", "invert_mut"})
    => (mout.v >= 0 /\ mout.v < mctx.n2)

\* C10: for a coprime to n, invert returns the standard-form inverse in [0, n);
\* invert_mut leaves its Montgomery form in [0, 2n): multiplied by the operand
\* it gives Montgomery one; r_cubed_mod_n is R^3 modulo n.
C10_Inverse ==
    LET m == mctx.n IN
    /\ (mop = "invert" /\ invertible(sa, m)) =>
           /\ mout.ok
           /\ Canonical(mout.v)
           /\ (mout.v * sa) % m = 1 % m
    /\ (mop = "invert_mut" /\ invertible(sa, m)) =>
           /\ mout.ok
           /\ mout.v >= 0 /\ mout.v < mctx.n2
           /\ Repr(mctx, mout.v) = invert_value(sa, m)
           /\ from_montgomery_mut(mctx, mul_assign(mctx, mout.v, ma)) = 1 % m
           /\ (mul_assign(mctx, mout.v, ma) - mctx.r_mod_n) % m = 0
    /\ (mctx.r_cubed_mod_n - Pow(mctx.r_mod_n, 3)) % m = 0

\* C10 witness: an inverse other than the operand itself, on a composite
\* modulus with R mod n # 1
C10_Witness ==
    /\ mop = "invert"
    /\ mout.ok
    /\ mctx.r_mod_n # 1
    /\ ~is_probably_prime(mctx.n)
    /\ ma = to_montgomery_mut(mctx, sa)
    /\ mout.v # sa /\ sa > 1

\* C11 (as claimed): when the operand is not coprime to n, invert and invert_mut
\* return None and the failure leaves the caller a potential factor of n, the
\* computed gcd.
C11_FailureHandsFactor ==
    (mop \in {"invert", "invert_mut"} /\ ~invertible(ma, mctx.n)) =>
        /\ ~mout.ok
        /\ mout.v = gcd(ma, mctx.n)

\* C11 (amended): when the operand is not coprime to n, invert and invert_mut
\* return None and no value; invert_mut leaves its operand as it was, and no
\* gcd is computed: the caller gets a factor only by taking gcd(operand, n)
\* itself, which is then greater than 1.  With a coprime operand both succeed.
C11_FailureReturnsNone ==
    mop \in {"invert", "invert_mut"} =>
        /\ mout.ok = invertible(ma, mctx.n)
        /\ ~mout.ok => (mout.v = ma /\ gcd(ma, mctx.n) > 1)

\* C11 witness: a failed invert_mut whose operand is not itself a divisor of n
C11_Witness ==
    /\ mop = "invert_mut"
    /\ ~mout.ok
    /\ ma > 0 /\ mctx.n % ma # 0
    /\ gcd(ma, mctx.n) \notin {1, mctx.n}

\* C12: whatever a context was bound to and whatever was run on it, after
\* change_mod(n') every constant equals that of Context::new(n'), and so every
\* operation gives the result it gives on a fresh context.
C12_ChangeModEqualsNew ==
    LET fresh == ContextNew(mctx.n) IN
    /\ mctx = fresh
    /\ mop = "mul" => mout.v = mul_assign(fresh, ma, mb)
    /\ mop = "cube" => mout.v = cube_mut(fresh, ma)
    /\ mop = "to_montgomery" => mout.v = to_montgomery_mut(fresh, sa)
    /\ mop = "invert_mut" => mout = invert_mut(fresh, ma)
    /\ mop = "from_montgomery" => mout.v = from_montgomery_mut(fresh, ma)

\* C12 witness: change_mod has just rebound the context to the largest modulus,
\* one for which R, R^3 and 1 are different residues
C12_Witness ==
    /\ mop = "change_mod"
    /\ \A m \in Moduli : m <= mctx.n
    /\ mctx.r_mod_n # 1 /\ mctx.r_cubed_mod_n # mctx.r_mod_n

\* C13: for every odd n > 1 the constants satisfy R > 4n, 0 <= n_inv < R and
\* n * n_inv = -1 (mod R); and for every x with 0 <= x < R*n the reduction
\* gives (x + m*n)/R, an exact integer in [0, 2n) congruent to x * R^-1 mod n,
\* where m = ((x mod R) * n_inv) mod R.  The products that mul, square and
\* to_montgomery hand to the reduction are below R*n.
C13_ReductionStep ==
    LET r == Pow(2, mctx.r_bit_length)
        m == mctx.n
    IN
    /\ r > 4 * m
    /\ mctx.n_inv >= 0 /\ mctx.n_inv < r
    /\ (m * mctx.n_inv + 1) % r = 0
    /\ mop \in {"new", "change_mod"} =>
           {x \in 0..(r * m - 1) :
               LET mm == ((x % r) * mctx.n_inv) % r
                   y == reduce_mut(mctx, x)
               IN ~(/\ (x + mm * m) % r = 0
                    /\ y = (x + mm * m) \div r
                    /\ y >= 0 /\ y < mctx.n2
                    /\ (y * r - x) % m = 0)} = {}
    /\ mop \in {"mul", "mul_ref_owned"} =>
           (ma * mb < r * m /\ mout.v = reduce_mut(mctx, ma * mb))
    /\ mop = "square" => ma * ma < r * m
    /\ mop = "to_montgomery" => sa * mctx.r_squared_mod_n < r * m

\* C13 witness: a product of two lazy operands above n whose reduction lands in
\* the upper half [n, 2n) of the lazy range
C13_Witness ==
    /\ mop = "mul"
    /\ ma >= mctx.n /\ mb >= mctx.n
    /\ mout.v >= mctx.n /\ mout.v < mctx.n2
    /\ mctx.r_bit_length > LIMB_BITS

\* C14 (as claimed): whenever pollard_rho_brent returns success on an odd
\* composite n, the value left in g is a non-trivial factor of n: 1 < g < n
\* and g divides n, on every path, the backtrack phase included.
C14_PollardSuccessProper ==
    (rho_ret = "Some" /\ ~is_probably_prime(rho_n)) =>
        (rho_g > 1 /\ rho_g < rho_n /\ rho_n % rho_g = 0)

\* least common multiple
lcm(a, b) == (a * b) \div gcd(a, b)

Live == 0..(temporary_factors.length - 1)

\* C16: during prime_factorize every context rebinding receives an odd modulus
\* above 1 (the shared context at lines 226 and 243; a sub-problem's context
\* by update_all at line 138 and in ecm_trial; the scratch context at lines
\* 182-187), and every pollard_rho_brent call receives an odd composite n > 1
\* whose context has modulus n.  ctx is the modulus of the shared context,
\* factor.ctx the modulus of the context handed to the last Pollard call.
C16_OddCompositeModuli ==
    /\ [](stats.suyama => (ctx > 1 /\ ctx % 2 = 1))
    /\ [](stats.pollard => /\ factor.ctx > 1 /\ factor.ctx % 2 = 1
                           /\ ~is_probably_prime(factor.ctx))
    /\ [][\A c \in {temporary_factors'.data[k].ctx : k \in 0..(SIZE - 1)}
                    \ {temporary_factors.data[k].ctx : k \in 0..(SIZE - 1)} :
               c > 1 /\ c % 2 = 1]_vars

\* lines 148-177: the sub-problem the dispatch loop is about to hand to
\* pollard_rho_brent, i.e. not prime at line 152 and not skipped at line 175
pollard_bound ==
    /\ pc = "pollard" /\ index > 0
    /\ temporary_factors.length < SIZE
    /\ LET curval == temporary_factors.data[index - 1].n IN
       /\ ~is_probably_prime(curval)
       /\ ~(failed_pollard[index - 1]
             /\ reduce_by(curval, factor.idx, prime_factors) = curval)

\* lines 163-172: the value pollard_rho_brent is then called on
pollard_argument ==
    reduce_by(temporary_factors.data[index - 1].n, factor.idx, prime_factors)

\* C17: in the Pollard dispatch loop a sub-problem is reduced by the
\* discovered primes, dropped if the residue is 1, square-rooted while it is a
\* perfect square and prime-tested on the reduced residue before Pollard rho
\* is called: the value Pollard rho is called on is never 1, never a perfect
\* square and never prime.
C17_ReducedBeforePollard ==
    pollard_bound =>
        /\ pollard_argument # 1
        /\ ~is_perfect_square(pollard_argument)
        /\ ~is_probably_prime(pollard_argument)

\* C18: a sub-problem on which all three Pollard attempts failed is marked
\* failed, and a sub-problem marked failed is handed to Pollard rho again only
\* when a prime discovered after the failure divides its residue.  The visit
\* that fails leaves idx = prime_factors.len() (line 174), so the primes
\* discovered afterwards are those at positions idx and above.
C18_NoRetryUnlessReduced ==
    (pollard_bound /\ failed_pollard[index - 1]) =>
        \E j \in temporary_factors.data[index - 1].idx..(prime_factors.length - 1) :
            is_divisible(temporary_factors.data[index - 1].n, prime_factors.data[j])

\* C19: in every state of prime_factorize each live sub-problem's stored
\* residue is not divisible by any discovered prime at a position below its
\* idx.
C19_IdxClaimsDividedPrimes ==
    \A k \in Live :
        \A j \in 0..(temporary_factors.data[k].idx - 1) :
            j < prime_factors.length =>
                ~is_divisible(temporary_factors.data[k].n, prime_factors.data[j])

\* a step of the dispatch loop or of ecm_trial in which a factor was found:
\* only these steps lengthen the stack
factor_found ==
    /\ pc \in {"pollard", "ecm"}
    /\ temporary_factors'.length = temporary_factors.length + 1

\* C20: when Pollard rho or an ECM curve finds a factor f of a sub-problem
\* whose reduced residue is m, afterwards the sub-problem and the new entry
\* hold m/f and f, every other sub-problem is unchanged, and the smaller of
\* the two is on top of the stack, the entry processed next.
C20_SplitKeepsSmallerOnTop ==
    [][factor_found =>
         LET len == temporary_factors.length
             pos == IF pc = "pollard" THEN index - 1 ELSE len - 1
             m == IF pc = "pollard" THEN pollard_argument
                  ELSE sqrt_while_square(ecm_reduced)
             below == temporary_factors'.data[pos].n
             top == temporary_factors'.data[len].n
         IN
         /\ below * top = m
         /\ m % top = 0
         /\ \A k \in 0..(len - 1) \ {pos} :
                temporary_factors'.data[k] = temporary_factors.data[k]
         /\ top <= below
         /\ pc = "pollard" => index' - 1 = len]_vars

\* the first ECM curve has split a sub-problem, in a call whose Pollard stage
\* had split one too (the stack holds three entries), and the two entries on
\* top are ordered
C20_Witness ==
    /\ pc = "ecm" /\ stats.printed /\ i = 1
    /\ temporary_factors.length >= 3
    /\ LET len == temporary_factors.length IN
       /\ temporary_factors.data[len - 1].n > 1
       /\ temporary_factors.data[len - 1].n < temporary_factors.data[len - 2].n

\* C30: every exact division of the orchestrator is applied to a dividend the
\* divisor divides: each time find_exponents divides the running n by an entry
\* of prime_factors (line 54) the entry divides n, and a factor found by
\* Pollard rho or by a curve divides the residue it is divided out of.
\* stats.inexact records a division at line 54 whose divisor did not divide n.
C30_DivisionsExact ==
    /\ ~stats.inexact
    /\ (pc = "count" /\ fi < prime_factors.length) =>
           is_divisible(n, prime_factors.data[fi])
    /\ pollard_bound =>
           \A r \in pollard_rho_brent(pollard_argument) :
               r.ok => is_divisible(pollard_argument, r.g)

\* lines 148-192 without the capacity: the dispatch loop is about to take
\* temporary_factors.next() as the output slot of pollard_rho_brent
pollard_takes_next ==
    /\ pc = "pollard" /\ index > 0
    /\ LET curval == temporary_factors.data[index - 1].n IN
       /\ ~is_probably_prime(curval)
       /\ ~(failed_pollard[index - 1]
             /\ reduce_by(curval, factor.idx, prime_factors) = curval)

\* C26: both fixed-capacity stacks keep 0 <= length <= SIZE, every push
\* writes a slot below SIZE (next() at lines 154 and 192, ecm/mod.rs 349 and
\* 400), top and dec are used on a non-empty stack, and in the dispatch loop
\* the scan index never exceeds the length of the sub-problem stack.
C26_StacksInBounds ==
    /\ temporary_factors.length \in 0..SIZE
    /\ prime_factors.length \in 0..SIZE
    /\ pc = "pollard" => index <= temporary_factors.length
    /\ pollard_takes_next => temporary_factors.length < SIZE
    /\ (pc = "pollard" /\ index > 0
          /\ is_probably_prime(temporary_factors.data[index - 1].n)) =>
           (prime_factors.length < SIZE /\ temporary_factors.length > 0)
    /\ (ecm_running /\ ecm_reduced # 1) =>
           LET curval == sqrt_while_square(ecm_reduced) IN
           IF is_probably_prime(curval)
           THEN prime_factors.length < SIZE
           ELSE Divisors(curval) \ {1, curval} # {} =>
                    temporary_factors.length < SIZE

\* C25: prime_factorize and the stages it calls write nothing to standard
\* output on any path, also when an ECM curve finds a factor.  stats.printed
\* records that the println! calls of ecm/mod.rs 392-396 have run.
C25_NoOutput == ~stats.printed

\* C29: every operator overload on the Montgomery wrappers (a + b, a - b,
\* a * b with owned and borrowed operands, and the assigning forms, which call
\* the same Context methods), given operands in [0, 2n), returns a value in
\* [0, 2n) congruent to the result modulo n; the borrowed-minus-owned form
\* &a - b returns a non-negative value, the one a.clone() - &b returns.
C29_OperatorsKeepRange ==
    (/\ ma >= 0 /\ ma < mctx.n2 /\ mb >= 0 /\ mb < mctx.n2
     /\ mop \in BinaryOps) =>
        /\ mout.v >= 0 /\ mout.v < mctx.n2
        /\ mop \in {"add", "add_ref_owned"} => (mout.v - (ma + mb)) % mctx.n = 0
        /\ mop \in {"sub", "sub_ref_owned"} => (mout.v - (ma - mb)) % mctx.n = 0
        /\ mop \in {"mul", "mul_ref_owned"} =>
               from_montgomery_mut(mctx, mout.v) = (sa * sb) % mctx.n
        /\ mop = "sub_ref_owned" => mout.v = sub_assign(mctx, ma, mb)

\* C27: every call of prime_factorize terminates: each iteration of the
\* dispatch loop either lowers the scan index or strictly splits a residue
\* into two factors greater than 1 (so the loop ends), and the call reaches
\* its end (ecm_trial uses at most ITERATIONS curves per pass).
C27_Terminates ==
    /\ [][(pc = "pollard" /\ pc' = "pollard") =>
             \/ index' < index
             \/ /\ temporary_factors'.length = temporary_factors.length + 1
                /\ temporary_factors'.data[index - 1].n > 1
                /\ temporary_factors'.data[temporary_factors.length].n > 1]_vars
    /\ [](i <= ITERATIONS)
    /\ <>(pc \in {"done", "panic"})
\* C28: what the thread-local buffers keep from an earlier call never reaches
\* a later one: when prime_factorize is entered prime_factors is empty, the
\* live sub-problems never hold a residue or an idx of an earlier call, and
\* the slot context line 182 compares with the residue is never one an earlier
\* call left there (a context of modulus 1 is what construction left)
C28_ScratchNeverInfluences ==
    /\ pc = "idle" => prime_factors.length = 0
    /\ pc # "idle" =>
           \A k \in Live : /\ temporary_factors.data[k].n # Stale.n
                          /\ temporary_factors.data[k].idx # Stale.idx
    /\ (pc = "pollard" /\ index > 0
          /\ ~is_probably_prime(temporary_factors.data[index - 1].n)) =>
           \/ temporary_factors.data[index - 1].ctx > 0
           \/ modulus(temporary_factors.data[index - 1].ctx) = 1
    /\ (stats.pushed /\ pc = "pollard" /\ ~stats.pollard /\ index = 1) =>
           temporary_factors.data[0].idx = 0


\* ------------------------------------------------- the curve batch
\* plain modular arithmetic on residues of the modulus m
cube_mod(x, m) == ((((x % m) * (x % m)) % m) * (x % m)) % m

\* den = 16 u^3 v and num = (v - u)^3 (3u + v) of Suyama's parameterization,
\* as residues of m
den_mod(par, m) == ((((16 % m) * cube_mod(par.u, m)) % m) * (par.v % m)) % m
num_mod(par, m) == (cube_mod(par.v - par.u, m) * ((3 * par.u + par.v) % m)) % m

\* every denominator of the batch is coprime to the cofactor
batch_coprime == \A j \in 1..Len(params) : gcd(den_mod(params[j], ecm_n), ecm_n) = 1

\* a batch no curve of which has been handed over yet
batch_fresh == ecm_pc \in {"trial", "panic"} /\ handed = <<>>

\* C22: provided every denominator 16 u^3 v of the batch is coprime to n,
\* suyama_parameterization completes and leaves every curve i with Z the
\* Montgomery one, X the Montgomery form of (u_i / v_i)^3 mod n and a24 the
\* Montgomery form of (v_i - u_i)^3 (3 u_i + v_i) / den_i mod n, each inverse
\* being the one that inverting the denominator on its own gives.
C22_SuyamaBatch ==
    (batch_fresh /\ batch_coprime) =>
        /\ ecm_pc = "trial"
        /\ \A k \in 1..ITERATIONS :
              LET c == contexts[ecm_n]
                  m == ecm_n
                  u == params[k].u
                  v == params[k].v
                  x == cube_mod(u * invert_value(v % m, m), m)
                  a == (num_mod(params[k], m)
                        * invert_value(den_mod(params[k], m), m)) % m
              IN /\ curves[k].P.Z = c.r_mod_n
                 /\ from_montgomery_mut(c, curves[k].P.Z) = 1 % m
                 /\ curves[k].P.X \in 0..(2 * m - 1)
                 /\ from_montgomery_mut(c, curves[k].P.X) = x
                 /\ curves[k].a24 \in 0..(2 * m - 1)
                 /\ from_montgomery_mut(c, curves[k].a24) = a

\* a batch of two different curves for a cofactor whose Montgomery forms are
\* not the residues themselves, every denominator coprime to it
C22_Witness ==
    /\ batch_fresh /\ batch_coprime
    /\ ecm_pc = "trial"
    /\ contexts[ecm_n].r_mod_n # 1
    /\ params[1] # params[2]
    /\ from_montgomery_mut(contexts[ecm_n], curves[1].a24)
           # from_montgomery_mut(contexts[ecm_n], curves[2].a24)
    /\ den_mod(params[1], ecm_n) # den_mod(params[2], ecm_n)
    /\ den_mod(params[1], ecm_n) # 1

\* ------------------------------------------------- hand-over of a curve
\* the curves as suyama_parameterization left them for this pass
batch_curves == suyama_parameterization(contexts[ecm_n], params).curves

\* a pass of ecm_trial is under way
pass_running == ecm_pc \in {"trial", "phase1", "phase2", "result", "done"}

\* curve i has just been handed to ecm_iteration
handed_over == ecm_pc = "phase1" /\ buffer_points.bit = 0

\* V is a Montgomery form of the residue y with respect to the context c
montgomery_form(c, V, y) ==
    V \in 0..(2 * c.n - 1) /\ from_montgomery_mut(c, V) = y % c.n

\* C21: within one pass of ecm_trial the curves are handed to ecm_iteration
\* in increasing order, each at most once, and a curve not handed over yet
\* is as the batch left it; at a hand-over the slot's context has the current
\* residue m as modulus and X, Z, a24 of the curve are Montgomery forms in
\* [0, 2m) for it: the batch values themselves when m is the cofactor the
\* batch was built for, and otherwise the batch values taken out of their
\* Montgomery form, reduced modulo m and mapped into the form of m.
C21_CurveHandOver ==
    pass_running =>
        /\ \A a, b \in 1..Len(handed) : a < b => handed[a] < handed[b]
        /\ \A a \in 1..Len(handed) : handed[a] <= ecm_i
        /\ \A k \in (ecm_i + 1)..ITERATIONS : curves[k] = batch_curves[k]
        /\ handed_over =>
              LET m == trial_top.n
                  cm == contexts[modulus(trial_top.ctx)]
                  cn == contexts[ecm_n]
                  was == batch_curves[ecm_i]
                  now == curves[ecm_i]
              IN /\ handed[Len(handed)] = ecm_i
                 /\ modulus(trial_top.ctx) = m
                 /\ m = ecm_n => now = was
                 /\ montgomery_form(cm, now.P.X, from_montgomery_mut(cn, was.P.X))
                 /\ montgomery_form(cm, now.P.Z, from_montgomery_mut(cn, was.P.Z))
                 /\ montgomery_form(cm, now.a24, from_montgomery_mut(cn, was.a24))

\* the second curve of a pass is handed over for a residue that is not the
\* cofactor, the first one having been used up on the same residue, and the
\* two moduli give different Montgomery forms
C21_Witness ==
    /\ handed_over
    /\ handed = <<1, 2>>
    /\ trial_top.n # ecm_n
    /\ contexts[ecm_n].r_mod_n # contexts[trial_top.n].r_mod_n
    /\ curves[1] # batch_curves[1]
    /\ curves[2] # batch_curves[2]
    /\ from_montgomery_mut(contexts[ecm_n], batch_curves[2].P.X) >= trial_top.n
\* ------------------------------------------------- reference group law
\* The Montgomery curve  B y^2 = x^3 + A x^2 + x  over the field of p
\* elements, A = 4 a24 - 2, with B chosen so that (x0, 1) is on the curve;
\* affine points [inf, x, y]
curve_A(a24, p) == (4 * a24 - 2) % p
curve_B(a24, x0, p) == (x0 * x0 * x0 + curve_A(a24, p) * x0 * x0 + x0) % p

\* p is a prime above 3, the curve is non-singular over its field and
\* (x0, 1) is a point of it, x0 not being the x of a point of order 2
on_curve(a24, x0, p) ==
    /\ is_probably_prime(p) /\ p > 3
    /\ (curve_A(a24, p) * curve_A(a24, p) - 4) % p # 0
    /\ curve_B(a24, x0, p) # 0

Infinity == [inf |-> TRUE, x |-> 0, y |-> 0]

ref_add(P1, P2, A, B, p) ==
    IF P1.inf THEN P2
    ELSE IF P2.inf THEN P1
    ELSE IF P1.x = P2.x /\ (P1.y + P2.y) % p = 0 THEN Infinity
    ELSE LET lam == IF P1.x = P2.x
                    THEN ((3 * P1.x * P1.x + 2 * A * P1.x + 1)
                          * invert_value((2 * B * P1.y) % p, p)) % p
                    ELSE ((P2.y - P1.y) * invert_value((P2.x - P1.x) % p, p)) % p
             x3 == (B * lam * lam - A - P1.x - P2.x) % p
         IN [inf |-> FALSE, x |-> x3, y |-> (lam * (P1.x - x3) - P1.y) % p]

RECURSIVE ref_mul(_, _, _, _, _)
ref_mul(k, P1, A, B, p) ==
    IF k = 0 THEN Infinity
    ELSE IF k % 2 = 0
         THEN LET H == ref_mul(k \div 2, P1, A, B, p) IN ref_add(H, H, A, B, p)
         ELSE ref_add(ref_mul(k - 1, P1, A, B, p), P1, A, B, p)

\* [k](x0, 1) on the curve given by a24, over the field of p elements
multiple(k, a24, x0, p) ==
    ref_mul(k, [inf |-> FALSE, x |-> x0 % p, y |-> 1],
            curve_A(a24, p), curve_B(a24, x0, p), p)

\* the projective point (X : Z), given in Montgomery form under c, is the x
\* of the affine point T modulo p
represents(pt, c, T, p) ==
    LET X == from_montgomery_mut(c, pt.X) % p
        Z == from_montgomery_mut(c, pt.Z) % p
    IN IF T.inf THEN Z = 0 ELSE Z # 0 /\ (X - T.x * Z) % p = 0

\* ------------------------------------------------- the ladders
\* largest scalar given to montgomery_ladder
MaxScalar == 9

\* the scalar of phase 1: the product over the primes p <= B1 of the highest
\* power of p that is <= B1
RECURSIVE prime_power_product(_, _)
prime_power_product(S, B1) ==
    IF S = {} THEN 1
    ELSE LET p == CHOOSE q \in S : TRUE
             top == CHOOSE q \in {Pow(p, e) : e \in 1..significant_bits(B1)} :
                        q <= B1 /\ q * p > B1
         IN top * prime_power_product(S \ {p}, B1)

phase1_scalar ==
    prime_power_product({p \in 2..EcmB1 : is_probably_prime(p)}, EcmB1)

\* the number whose bits are a leading 1 followed by the first k entries of
\* bits
RECURSIVE scalar_of(_, _)
scalar_of(bits, k) ==
    IF k = 0 THEN 1
    ELSE 2 * scalar_of(bits, k - 1) + (IF bits[k] THEN 1 ELSE 0)

\* the primes above 3 that divide m
field_primes(m) == {p \in 5..m : is_probably_prime(p) /\ m % p = 0}

\* the curve in hand, read back from its Montgomery forms: a24 and the x of
\* the starting point P0, whose Z is the Montgomery one
curve_a24 == from_montgomery_mut(contexts[trial_top.n], curves[ecm_i].a24)
curve_x0 == from_montgomery_mut(contexts[trial_top.n], curves[ecm_i].P.X)

\* [k]P0 on the curve in hand over the field of p elements
multiple_of_P0(k, p) == multiple(k, curve_a24 % p, curve_x0 % p, p)

\* the curve in hand is a curve over the field of p elements
curve_in_hand(p) == on_curve(curve_a24 % p, curve_x0 % p, p)

\* the point pt is the point at infinity or has a non-zero x modulo p
proper_base(pt, c, p) ==
    \/ from_montgomery_mut(c, pt.X) % p # 0
    \/ from_montgomery_mut(c, pt.Z) % p = 0

\* C23: in ecm_phase1 the running points Q and P are [t]P0 and [t + 1]P0, t
\* being the number read from the leading 1 and the bits of find_s(B1) done
\* so far, so that every differential addition is given the difference P0 it
\* requires, and after the last bit t is s, the product of the highest prime
\* powers up to B1: phase 1 ends with [s]P0.  montgomery_ladder, for every
\* scalar j >= 1, ends with [j]B in its first output and [j + 1]B in its
\* second, for the base points B = [t]P0 and B = [t + 1]P0, every
\* differential addition in it being given the difference B.
C23_Ladders ==
    ecm_pc = "phase1" =>
        LET cx == contexts[trial_top.n]
            m == trial_top.n
            t == scalar_of(s1, buffer_points.bit)
            Q == buffer_points.Q
            P == buffer_points.P
        IN /\ Q.k = t /\ P.k = t + 1
           /\ Q.ok /\ P.ok
           /\ buffer_points.bit = Len(s1) => t = phase1_scalar
           /\ \A p \in field_primes(m) :
                 curve_in_hand(p) =>
                     /\ represents(Q, cx, multiple_of_P0(t, p), p)
                     /\ represents(P, cx, multiple_of_P0(t + 1, p), p)
           /\ \A B \in {Q, P}, j \in 1..MaxScalar :
                 LET L == montgomery_ladder(B, j, curves[ecm_i].a24, cx)
                 IN /\ L.P0.k = j * B.k /\ L.Q0.k = (j + 1) * B.k
                    /\ L.P0.ok /\ L.Q0.ok
                    /\ \A p \in field_primes(m) :
                          (curve_in_hand(p) /\ proper_base(B, cx, p)) =>
                              /\ represents(L.P0, cx,
                                            multiple_of_P0(j * B.k, p), p)
                              /\ represents(L.Q0, cx,
                                            multiple_of_P0((j + 1) * B.k, p), p)

\* phase 1 has done its last bit on a curve over a field in which neither
\* [s]P0 nor [s + 1]P0 is the point at infinity, and some ladder on
\* [s + 1]P0 ends in two such points as well
C23_Witness ==
    /\ ecm_pc = "phase1"
    /\ buffer_points.bit = Len(s1)
    /\ Len(s1) > 2
    /\ \E p \in field_primes(trial_top.n) :
          /\ curve_in_hand(p)
          /\ proper_base(buffer_points.P, contexts[trial_top.n], p)
          /\ ~multiple_of_P0(phase1_scalar, p).inf
          /\ ~multiple_of_P0(phase1_scalar + 1, p).inf
          /\ \E j \in 2..MaxScalar :
                /\ ~multiple_of_P0(j * (phase1_scalar + 1), p).inf
                /\ ~multiple_of_P0((j + 1) * (phase1_scalar + 1), p).inf

\* ------------------------------------------------- the phase-2 walk
\* the prime whose accumulator update was made last, and its gaps entry
walk_prime == primes(phase2.index - 1)
walk_gap == gaps1.gaps[phase2.index]

\* an accumulator update of the walk has been made
walk_updated == ecm_pc = "phase2" /\ phase2.index > ecm_start

\* |a - b|
apart(a, b) == IF a < b THEN b - a ELSE a - b

\* calculate_gaps on its own, for the block b: every prime from 3 to 3 b
\* other than 5 has an entry that is not the sentinel and lies inside
\* values, where it finds the distance from the prime to the nearest
\* multiple of b
gaps_find_distance(b) ==
    LET g == calculate_gaps(b, 3 * b)
    IN \A k \in 1..Len(g.gaps) :
          (k > 1 /\ primes(k - 1) # 5) =>
              /\ g.gaps[k] # INF
              /\ g.gaps[k] < Len(g.values)
              /\ \E c \in {b * j : j \in 0..3} :
                    /\ 2 * apart(primes(k - 1), c) <= b
                    /\ g.values[g.gaps[k] + 1] = apart(primes(k - 1), c)

gaps_sound == \A b \in {BLOCK_SIZE_1, 5 * BLOCK_SIZE_1} : gaps_find_distance(b)

\* C24: when the accumulator update for a prime p is made, p is a prime of
\* [B1, B2] (and every such prime gets its update), the cursor R is [c]Q0
\* for a multiple c of the block size B with |p - c| <= B/2, Q is [B]Q0 and
\* Q2, the point one block behind, is [c - B]Q0, the difference the next
\* differential addition R + Q requires; every addition made so far was given
\* its difference; the gaps entry of p is not the sentinel, indexes inside
\* the table that precompute_gaps filled, and the entry there is [|p - c|]Q0.
\* The walk never indexes outside the table.
C24_Phase2Walk ==
    /\ gaps_sound
    /\ Len(gaps1.values) <= PHASE_2_TABLE
    /\ ecm_pc = "panic" => handed = <<>>
    /\ ecm_pc = "phase2" =>
          /\ phase2.index \in ecm_start..ecm_end
          /\ \A k \in ecm_start..(ecm_end - 1) :
                primes(k) >= EcmB1 /\ primes(k) <= EcmB2
          /\ \A q \in EcmB1..EcmB2 :
                is_probably_prime(q) => \E k \in ecm_start..(ecm_end - 1) : primes(k) = q
          /\ Len(phase2.table) = Len(gaps1.values)
          /\ \A j \in 1..Len(phase2.table) :
                phase2.table[j].k = gaps1.values[j] /\ phase2.table[j].ok
          /\ LET T == precompute_gaps(
                          phase2.table[1],
                          point_double(phase2.table[1], curves[ecm_i].a24,
                                       contexts[trial_top.n]),
                          contexts[trial_top.n],
                          calculate_gaps(5 * BLOCK_SIZE_1, EcmB2).values)
             IN \A j \in 1..Len(T) :
                   /\ T[j].k = calculate_gaps(5 * BLOCK_SIZE_1, EcmB2).values[j]
                   /\ T[j].ok
    /\ walk_updated =>
          LET B == BLOCK_SIZE_1
              c == phase2.c
          IN /\ walk_prime >= EcmB1 /\ walk_prime <= EcmB2
             /\ c % B = 0
             /\ 2 * apart(walk_prime, c) <= B
             /\ phase2.R.k = c /\ phase2.R.ok
             /\ curves[ecm_i].P.k = B /\ curves[ecm_i].P.ok
             /\ phase2.Q2.k = c - B /\ phase2.Q2.ok
             /\ walk_gap # INF
             /\ walk_gap < Len(phase2.table)
             /\ walk_gap < PHASE_2_TABLE
             /\ phase2.table[walk_gap + 1].k = apart(walk_prime, c)
             /\ \A p \in field_primes(trial_top.n) :
                   (curve_in_hand(p)
                        /\ proper_base(phase2.table[1], contexts[trial_top.n], p)) =>
                       represents(phase2.R, contexts[trial_top.n],
                                  multiple_of_P0(c * phase1_scalar, p), p)

\* the update has been made for a prime that lies behind the cursor, after
\* the cursor has moved at least two blocks from where it started
C24_Witness ==
    /\ walk_updated
    /\ walk_prime < phase2.c
    /\ phase2.c >= ((EcmB1 + BLOCK_SIZE_1 \div 2) \div BLOCK_SIZE_1 + 2) * BLOCK_SIZE_1
    /\ phase2.R.ok
    /\ phase2.table[walk_gap + 1].k = phase2.c - walk_prime
====
